---- MODULE Spec2Model ----
(***************************************************************************)
(* A model of nagiosplugin.py: the threshold grammar (validate / parse),   *)
(* the range matcher (value_matches_range), the time-period calendar and   *)
(* selector, the threshold resolution for "now", and the status decision   *)
(* of NagiosPlugin.                                                        *)
(*                                                                         *)
(* Python strings are modelled as sequences of one-character strings, so   *)
(* that the regular expression, split(), lstrip(), int() and strptime()    *)
(* are computed character by character as the library computes them.       *)
(***************************************************************************)
EXTENDS Integers, Sequences, FiniteSets, TLC

VARIABLES pc, arg, ret, thresholds, status, exit_status, clock, file, inv

vars == <<pc, arg, ret, thresholds, status, exit_status, clock, file, inv>>

\* the call in progress, the plugin it is made on and the exit status of its
\* process
call_vars == <<pc, arg, ret, thresholds, status, exit_status>>

\* the clock, the delta file and the invocations that share it
delta_vars == <<clock, file, inv>>

-----------------------------------------------------------------------------
(* Bounds of the model *)

\* longest threshold string handed to validate / parse
MaxLen == 5

\* most time periods (and thresholds) in one comma-separated list
MaxPeriods == 3

\* most invocations of the plugin one after the other
MaxInvocations == 2

\* most advances of the clock
MaxTicks == 2

-----------------------------------------------------------------------------
(* Python values and outcomes *)

\* the value a raised outcome carries in place of a result
NoValue == "None"

\* a call that returned v
Ok(v) == [exc |-> "none", val |-> v]

\* a call that raised the exception named e
Raise(e) == [exc |-> e, val |-> NoValue]

\* sequencing of calls: an exception raised by the first ends the evaluation,
\* otherwise Then continues with the value returned
Try(r, Then(_)) == IF r.exc # "none" THEN r ELSE Then(r.val)

\* Python's None, the empty tuple () and a str, as passed for a threshold
PyNone == [t |-> "None", s |-> <<>>]
PyEmptyTuple == [t |-> "tuple", s |-> <<>>]
Str(s) == [t |-> "str", s |-> s]

-----------------------------------------------------------------------------
(* Characters and string primitives *)

Digit == {"0", "1", "2", "3", "4", "5", "6", "7", "8", "9"}

DigitVal(c) ==
    CASE c = "0" -> 0 [] c = "1" -> 1 [] c = "2" -> 2 [] c = "3" -> 3
      [] c = "4" -> 4 [] c = "5" -> 5 [] c = "6" -> 6 [] c = "7" -> 7
      [] c = "8" -> 8 [] c = "9" -> 9

DigitChar(d) ==
    CASE d = 0 -> "0" [] d = 1 -> "1" [] d = 2 -> "2" [] d = 3 -> "3"
      [] d = 4 -> "4" [] d = 5 -> "5" [] d = 6 -> "6" [] d = 7 -> "7"
      [] d = 8 -> "8" [] d = 9 -> "9"

IsDigits(s) == Len(s) > 0 /\ \A i \in 1..Len(s) : s[i] \in Digit

Contains(s, c) == \E i \in 1..Len(s) : s[i] = c

\* str.startswith(c) for a one-character c
StartsWith(s, c) == Len(s) > 0 /\ s[1] = c

\* index of the first occurrence of c in s (s contains c)
IndexOf(s, c) == CHOOSE i \in 1..Len(s) : s[i] = c /\ \A j \in 1..(i - 1) : s[j] # c

\* str.lstrip(c): every leading c is removed, not only the first
RECURSIVE LStrip(_, _)
LStrip(s, c) == IF StartsWith(s, c) THEN LStrip(Tail(s), c) ELSE s

\* str.split(sep): always at least one field; '' splits to ['']
RECURSIVE Split(_, _)
Split(s, sep) ==
    IF ~Contains(s, sep) THEN <<s>>
    ELSE LET i == IndexOf(s, sep)
         IN  <<SubSeq(s, 1, i - 1)>> \o Split(SubSeq(s, i + 1, Len(s)), sep)

\* value of a non-empty run of decimal digits
RECURSIVE DecimalValue(_)
DecimalValue(s) ==
    IF s = <<>> THEN 0
    ELSE 10 * DecimalValue(SubSeq(s, 1, Len(s) - 1)) + DigitVal(s[Len(s)])

\* int(string) of Python 2 on a str without whitespace: an optional sign and
\* one or more digits, anything else raises ValueError
PyInt(s) ==
    IF IsDigits(s) THEN Ok(DecimalValue(s))
    ELSE IF Len(s) > 1 /\ s[1] = "-" /\ IsDigits(Tail(s)) THEN Ok(0 - DecimalValue(Tail(s)))
    ELSE IF Len(s) > 1 /\ s[1] = "+" /\ IsDigits(Tail(s)) THEN Ok(DecimalValue(Tail(s)))
    ELSE Raise("ValueError")

\* the decimal numeral of a natural number, as str(n) writes it
RECURSIVE Dec(_)
Dec(n) == IF n < 10 THEN <<DigitChar(n)>> ELSE Dec(n \div 10) \o <<DigitChar(n % 10)>>

-----------------------------------------------------------------------------
(* Maths: bounds of a range *)

INFINITY == [kind |-> "infinity", n |-> 0]
NEGATIVE_INFINITY == [kind |-> "negative_infinity", n |-> 0]
Num(n) == [kind |-> "int", n |-> n]

\* the tuple (start, end, invert_range) that parse returns
RangeTuple(start, end, flag) == [start |-> start, end |-> end, flag |-> flag]

-----------------------------------------------------------------------------
(* ThresholdParser.validate: re.match(r"^@?((\d+|~):?)?(\d+)?$", string)    *)
(* The matcher is computed as the set of positions each part of the        *)
(* pattern can end at, which is what backtracking explores.                *)

\* positions after an optional literal c, starting from any position of P
AfterOptChar(s, P, c) == P \cup {p + 1 : p \in {q \in P : q <= Len(s) /\ s[q] = c}}

\* positions after \d+ starting from any position of P
AfterDigits(s, P) ==
    {q \in 2..(Len(s) + 1) : \E p \in P : p < q /\ \A i \in p..(q - 1) : s[i] \in Digit}

\* positions after (\d+|~) starting from any position of P
AfterLow(s, P) ==
    AfterDigits(s, P) \cup {p + 1 : p \in {q \in P : q <= Len(s) /\ s[q] = "~"}}

\* $ : the end of the string, or just before a final newline
AtEnd(s, p) == p = Len(s) + 1 \/ (p = Len(s) /\ s[p] = "\n")

ReMatch(s) ==
    LET P1 == AfterOptChar(s, {1}, "@")
        P2 == P1 \cup AfterOptChar(s, AfterLow(s, P1), ":")
        P3 == P2 \cup AfterDigits(s, P2)
    IN  \E p \in P3 : AtEnd(s, p)

\* a bug that reports an invalid string by returning False
validateReturningFalse(string) ==
    IF ReMatch(string) THEN Ok(TRUE) ELSE Ok(FALSE)

validate(string) ==
    IF ReMatch(string) THEN Ok(TRUE) ELSE Raise("ThresholdValidatorError")

-----------------------------------------------------------------------------
(* ThresholdParser.parse *)

\* int() of one side of the range; a ValueError is passed on as raised
BoundOf(text) == Try(PyInt(text), LAMBDA n : Ok(Num(n)))

\* the check of line 92: both bounds finite and the high below the low
EndBelowStart(start, end) ==
    end # INFINITY /\ start # NEGATIVE_INFINITY /\ end.n < start.n

\* the branch of parse for a range with a ':'; only values[0] and values[1]
\* of the split are read
StartOf(text) == IF text = <<"~">> THEN Ok(NEGATIVE_INFINITY) ELSE BoundOf(text)
EndOf(text) == IF text = <<>> THEN Ok(INFINITY) ELSE BoundOf(text)

CheckedRange(start, end, invert_range) ==
    IF EndBelowStart(start, end) THEN Raise("ThresholdValidatorError")
    ELSE Ok(RangeTuple(start, end, invert_range))

ParseValues(values, invert_range) ==
    Try(StartOf(values[1]), LAMBDA start :
        Try(EndOf(values[2]), LAMBDA end : CheckedRange(start, end, invert_range)))

ParseWithColon(stripped, invert_range) == ParseValues(Split(stripped, ":"), invert_range)

\* a bug that leaves the low bound open instead of defaulting it to 0
ParseWithoutColonOpenStart(stripped, invert_range) ==
    Try(BoundOf(stripped), LAMBDA end : Ok(RangeTuple(NEGATIVE_INFINITY, end, invert_range)))

\* the branch of parse for a range without ':': start keeps its default 0
ParseWithoutColon(stripped, invert_range) ==
    Try(BoundOf(stripped), LAMBDA end : Ok(RangeTuple(Num(0), end, invert_range)))

ParseStripped(stripped, invert_range) ==
    IF Contains(stripped, ":")
    THEN ParseWithColon(stripped, invert_range)
    ELSE ParseWithoutColon(stripped, invert_range)

parse(range) ==
    IF StartsWith(range, "@")
    THEN ParseStripped(LStrip(range, "@"), TRUE)
    ELSE ParseStripped(range, FALSE)

-----------------------------------------------------------------------------
(* ThresholdParser.value_matches_range *)

\* a value handed to the matcher: a number, or a str fetched from a service
NumValue(n) == [t |-> "num", n |-> n, s |-> <<>>]
StrValue(s) == [t |-> "str", n |-> 0, s |-> s]

\* float(value): a number converts to itself; a str converts when it is a
\* signed run of digits (the strings drawn contain no '.', exponent, space,
\* 'inf' or 'nan'), and raises ValueError otherwise
PyFloat(value) == IF value.t = "num" THEN Ok(value.n) ELSE PyInt(value.s)

\* x <= bound, x < bound, x > bound in Python 2, where a number compared with
\* a str (a Maths constant) is always the smaller one
PyLE(x, bound) == IF bound.kind = "int" THEN x <= bound.n ELSE TRUE
PyLT(x, bound) == IF bound.kind = "int" THEN x < bound.n ELSE TRUE
PyGT(x, bound) == IF bound.kind = "int" THEN x > bound.n ELSE FALSE

\* start <= x in Python 2 (x >= bound)
PyGE(x, bound) == IF bound.kind = "int" THEN bound.n <= x ELSE FALSE

\* a bug that excludes the bounds themselves from the inside of the range
value_matches_range_exclusive(start, end, alert_inside_range, value) ==
    Try(IF PyFloat(value).exc = "none" THEN PyFloat(value) ELSE Raise("InvalidParameterError"),
        LAMBDA x :
            IF alert_inside_range
            THEN Ok(/\ (start = NEGATIVE_INFINITY \/ PyGT(x, start))
                    /\ (PyLT(x, end) \/ end = INFINITY))
            ELSE Ok(\/ (start # NEGATIVE_INFINITY /\ PyLT(x, start))
                    \/ (end # INFINITY /\ PyGT(x, end))))

\* a bug that reads the flag the other way round
value_matches_range_swapped(start, end, alert_inside_range, value) ==
    Try(IF PyFloat(value).exc = "none" THEN PyFloat(value) ELSE Raise("InvalidParameterError"),
        LAMBDA x :
            IF ~alert_inside_range
            THEN Ok(/\ (start = NEGATIVE_INFINITY \/ PyGE(x, start))
                    /\ (PyLE(x, end) \/ end = INFINITY))
            ELSE Ok(\/ (start # NEGATIVE_INFINITY /\ PyLT(x, start))
                    \/ (end # INFINITY /\ PyGT(x, end))))

\* a matcher whose inside test leaves the start of the range out
value_matches_range_open_start(start, end, alert_inside_range, value) ==
    Try(IF PyFloat(value).exc = "none" THEN PyFloat(value) ELSE Raise("InvalidParameterError"),
        LAMBDA x :
            IF alert_inside_range
            THEN Ok(/\ (start = NEGATIVE_INFINITY \/ PyGT(x, start))
                    /\ (PyLE(x, end) \/ end = INFINITY))
            ELSE Ok(\/ (start # NEGATIVE_INFINITY /\ PyLT(x, start))
                    \/ (end # INFINITY /\ PyGT(x, end))))

value_matches_range(start, end, alert_inside_range, value) ==
    Try(IF PyFloat(value).exc = "none" THEN PyFloat(value) ELSE Raise("InvalidParameterError"),
        LAMBDA x :
            IF alert_inside_range
            THEN Ok(/\ (start = NEGATIVE_INFINITY \/ PyGE(x, start))
                    /\ (PyLE(x, end) \/ end = INFINITY))
            ELSE Ok(\/ (start # NEGATIVE_INFINITY /\ PyLT(x, start))
                    \/ (end # INFINITY /\ PyGT(x, end))))

-----------------------------------------------------------------------------
(* Thresholds *)

\* the attributes of a Thresholds object: warning_values and critical_values
\* exist only when the corresponding string was given and parsed
NoRange == RangeTuple(Num(0), Num(0), FALSE)

ThresholdsObject(hw, wv, hc, cv) ==
    [has_warning_values |-> hw, warning_values |-> wv,
     has_critical_values |-> hc, critical_values |-> cv]

\* one half of _validate_thresholds: len(x) of None raises TypeError, which is
\* swallowed; a non-empty string is validated and then parsed
ValidateOne(x) ==
    IF x.t = "None" \/ Len(x.s) = 0 THEN Ok([has |-> FALSE, values |-> NoRange])
    ELSE Try(validate(x.s), LAMBDA valid :
             Try(parse(x.s), LAMBDA values : Ok([has |-> TRUE, values |-> values])))

\* Thresholds.__init__ with _validate_thresholds
Thresholds(warning, critical) ==
    Try(ValidateOne(warning), LAMBDA w :
        Try(ValidateOne(critical), LAMBDA c :
            Ok(ThresholdsObject(w.has, w.values, c.has, c.values))))

\* a missing critical_values attribute raises AttributeError, caught as False
value_is_critical(self, value) ==
    IF ~self.has_critical_values THEN Ok(FALSE)
    ELSE value_matches_range(self.critical_values.start, self.critical_values.end,
                             self.critical_values.flag, value)

\* a matcher that takes a value that is no number for one outside every range
value_is_warning_lenient(self, value) ==
    IF ~self.has_warning_values \/ PyFloat(value).exc # "none" THEN Ok(FALSE)
    ELSE value_matches_range(self.warning_values.start, self.warning_values.end,
                             self.warning_values.flag, value)

value_is_warning(self, value) ==
    IF ~self.has_warning_values THEN Ok(FALSE)
    ELSE value_matches_range(self.warning_values.start, self.warning_values.end,
                             self.warning_values.flag, value)

-----------------------------------------------------------------------------
(* Clock times: time.strptime, time.mktime, time.gmtime, time.strftime *)

\* %H of strptime: 2[0-3] | [0-1]\d | \d
HourText(h) ==
    \/ Len(h) = 2 /\ h[1] = "2" /\ h[2] \in {"0", "1", "2", "3"}
    \/ Len(h) = 2 /\ h[1] \in {"0", "1"} /\ h[2] \in Digit
    \/ Len(h) = 1 /\ h[1] \in Digit

\* %M of strptime: [0-5]\d | \d
MinuteText(m) ==
    \/ Len(m) = 2 /\ m[1] \in {"0", "1", "2", "3", "4", "5"} /\ m[2] \in Digit
    \/ Len(m) = 1 /\ m[1] \in Digit

\* time.strptime("1970:" + text, "%Y:%H:%M"): the whole text must be an hour,
\* a ':' and a minute, or ValueError is raised
HourAndMinute(hour, minute) ==
    IF HourText(hour) /\ MinuteText(minute)
    THEN Ok([tm_hour |-> DecimalValue(hour), tm_min |-> DecimalValue(minute)])
    ELSE Raise("ValueError")

strptime(text) ==
    IF Contains(text, ":")
    THEN HourAndMinute(SubSeq(text, 1, IndexOf(text, ":") - 1),
                       SubSeq(text, IndexOf(text, ":") + 1, Len(text)))
    ELSE Raise("ValueError")

\* time.mktime of 1 January 1970, tm_hour:tm_min:00 local time, where local
\* time is utcoffset seconds ahead of UTC
mktime(tm, utcoffset) == tm.tm_hour * 3600 + tm.tm_min * 60 - utcoffset

\* time.gmtime(timestamp), the fields that are read
gmtime(timestamp) ==
    [tm_hour |-> (timestamp % 86400) \div 3600,
     tm_min |-> (timestamp % 3600) \div 60,
     tm_sec |-> timestamp % 60]

\* two decimal digits, zero padded
Pad2(n) == <<DigitChar(n \div 10), DigitChar(n % 10)>>

\* time.strftime("1970:%H:%M", tm) without the year: the seconds are not written
strftime(tm) == Pad2(tm.tm_hour) \o <<":">> \o Pad2(tm.tm_min)

-----------------------------------------------------------------------------
(* ThresholdParser: time periods *)

SECONDS_IN_A_DAY_MINUS_ONE_MINUTE == 86340

\* the text "24:00" and the text "00:00"
Text2400 == <<"2", "4", ":", "0", "0">>
Text0000 == <<"0", "0", ":", "0", "0">>
Text2359 == <<"2", "3", ":", "5", "9">>

\* a bug that forgets that an end of 00:00 means the end of the day
NormalisedEndOnly2400(end_time) == IF end_time = Text2400 THEN Text2359 ELSE end_time

\* lines 262-265: 24:00 as a start is 00:00; 24:00 or 00:00 as an end is 23:59
NormalisedStart(start_time) == IF start_time = Text2400 THEN Text0000 ELSE start_time
NormalisedEnd(end_time) ==
    IF end_time = Text2400 \/ end_time = Text0000 THEN Text2359 ELSE end_time

\* lines 268-272: both texts converted, ValueError caught and raised again as
\* ThresholdTimePeriodError
StartAndEnd(start_text, end_text, utcoffset) ==
    IF strptime(start_text).exc # "none" \/ strptime(end_text).exc # "none"
    THEN Raise("ThresholdTimePeriodError")
    ELSE Ok([start_time |-> mktime(strptime(start_text).val, utcoffset),
             end_time |-> mktime(strptime(end_text).val, utcoffset)])

\* a bug that accepts a period that ends before it starts
OrderedAnyway(p) == Ok(p)

\* lines 274-277
Ordered(p) ==
    IF p.end_time < p.start_time THEN Raise("ThresholdTimePeriodError") ELSE Ok(p)

PeriodOfList(time_period_list, utcoffset) ==
    IF Len(time_period_list) # 2 THEN Raise("ThresholdTimePeriodError")
    ELSE Try(StartAndEnd(NormalisedStart(time_period_list[1]),
                         NormalisedEnd(time_period_list[2]), utcoffset),
             LAMBDA p : Ordered(p))

get_start_and_end_seconds_from_period(time_period, utcoffset) ==
    PeriodOfList(Split(time_period, "-"), utcoffset)

\* the loop of time_periods_cover_24_hours: total_seconds after the periods
\* from index i on are added to total, or the error of the first bad period
RECURSIVE TotalSeconds(_, _, _, _)
TotalSeconds(time_period_values, i, total, utcoffset) ==
    IF i > Len(time_period_values) THEN Ok(total)
    ELSE Try(get_start_and_end_seconds_from_period(time_period_values[i], utcoffset),
             LAMBDA p : TotalSeconds(time_period_values, i + 1,
                                     total + (p.end_time - p.start_time), utcoffset))

\* a bug that asks for the 86400 seconds of a whole day
TotalIsAWholeDay(total_seconds) == Ok(total_seconds = 24 * 3600)

\* line 292
TotalIsADay(total_seconds) == Ok(total_seconds = SECONDS_IN_A_DAY_MINUS_ONE_MINUTE)

time_periods_cover_24_hours(time_period_values, utcoffset) ==
    Try(TotalSeconds(time_period_values, 1, 0, utcoffset),
        LAMBDA total_seconds : TotalIsADay(total_seconds))

\* a bug that keeps the seconds of the timestamp in the time of day
CurrentTimeWithSeconds(timestamp, utcoffset) ==
    mktime(strptime(strftime(gmtime(timestamp))).val, utcoffset) + gmtime(timestamp).tm_sec

\* line 229-230: the timestamp's UTC hour and minute, written as text, read
\* back and converted as a local time of 1 January 1970
CurrentTime(timestamp, utcoffset) ==
    mktime(strptime(strftime(gmtime(timestamp))).val, utcoffset)

\* a bug that excludes the end of a period from the period
PeriodContainsHalfOpen(p, current_time) ==
    p.start_time <= current_time /\ current_time < p.end_time

\* line 236
PeriodContains(p, current_time) ==
    p.start_time <= current_time /\ current_time <= p.end_time

\* the loop of get_time_period_index from list position i (1-based here, the
\* index returned is Python's, 0-based)
RECURSIVE IndexFrom(_, _, _, _)
IndexFrom(time_period_values, i, current_time, utcoffset) ==
    IF i > Len(time_period_values) THEN Raise("ThresholdTimePeriodError")
    ELSE Try(get_start_and_end_seconds_from_period(time_period_values[i], utcoffset),
             LAMBDA p : IF PeriodContains(p, current_time) THEN Ok(i - 1)
                        ELSE IndexFrom(time_period_values, i + 1, current_time, utcoffset))

get_time_period_index(time_period_values, timestamp, utcoffset) ==
    IndexFrom(time_period_values, 1, CurrentTime(timestamp, utcoffset), utcoffset)

-----------------------------------------------------------------------------
(* ThresholdParser.get_thresholds_for_time *)

\* `',' in x`: a str is searched, the empty tuple holds nothing
HasComma(x) == x.t = "str" /\ Contains(x.s, ",")

\* x.split(','): a tuple has no split, AttributeError is caught and gives []
SplitOrEmpty(x) == IF x.t = "str" THEN Split(x.s, ",") ELSE <<>>

\* values[index] with IndexError caught as None (index is 0-based)
ItemOrNone(values, index) ==
    IF index < Len(values) THEN Str(values[index + 1]) ELSE PyNone

\* length checks that let a single value stand beside a list
LengthsDisagreeButForSingle(warning_values, critical_values, time_period_values) ==
    \/ /\ Len(warning_values) > 1 /\ Len(critical_values) > 1
       /\ Len(warning_values) # Len(critical_values)
    \/ /\ Len(warning_values) > 1
       /\ Len(time_period_values) # Len(warning_values)
    \/ /\ Len(warning_values) <= 1 /\ Len(critical_values) > 1
       /\ Len(time_period_values) # Len(critical_values)

\* lines 179-192: the three length checks
LengthsDisagree(warning_values, critical_values, time_period_values) ==
    \/ /\ Len(warning_values) > 0 /\ Len(critical_values) > 0
       /\ Len(warning_values) # Len(critical_values)
    \/ /\ Len(warning_values) > 0
       /\ Len(time_period_values) # Len(warning_values)
    \/ /\ Len(warning_values) = 0 /\ Len(critical_values) > 0
       /\ Len(time_period_values) # Len(critical_values)

\* a bug that pairs the current period with the following threshold
ForNowOffByOne(warning_values, critical_values, index) ==
    [warning |-> ItemOrNone(warning_values, index + 1),
     critical |-> ItemOrNone(critical_values, index + 1)]

\* lines 200-210
ForNow(warning_values, critical_values, index) ==
    [warning |-> ItemOrNone(warning_values, index),
     critical |-> ItemOrNone(critical_values, index)]

\* a selection that does not ask whether the periods cover the day
SelectForNowUncovered(warning_values, critical_values, time_period_values, timestamp, utcoffset) ==
    Try(get_time_period_index(time_period_values, timestamp, utcoffset),
        LAMBDA index : Ok(ForNow(warning_values, critical_values, index)))

\* lines 194-210, after the length checks
SelectForNow(warning_values, critical_values, time_period_values, timestamp, utcoffset) ==
    Try(time_periods_cover_24_hours(time_period_values, utcoffset), LAMBDA covered :
        IF ~covered THEN Raise("ThresholdTimePeriodError")
        ELSE Try(get_time_period_index(time_period_values, timestamp, utcoffset),
                 LAMBDA index : Ok(ForNow(warning_values, critical_values, index))))

\* lines 165-210: time_periods.split(',') of None raises AttributeError
SplitAndSelect(warning_values, critical_values, time_periods, timestamp, utcoffset) ==
    IF time_periods = PyNone THEN Raise("AttributeError")
    ELSE IF LengthsDisagree(warning_values, critical_values, Split(time_periods.s, ","))
    THEN Raise("ThresholdTimePeriodError")
    ELSE SelectForNow(warning_values, critical_values, Split(time_periods.s, ","),
                      timestamp, utcoffset)

\* lines 159-215, warning and critical being () where None was given
ResolveGiven(warning, critical, time_periods, timestamp, utcoffset) ==
    IF HasComma(warning) \/ HasComma(critical) \/ time_periods # PyNone
    THEN SplitAndSelect(SplitOrEmpty(warning), SplitOrEmpty(critical), time_periods,
                        timestamp, utcoffset)
    ELSE Ok([warning |-> warning, critical |-> critical])

NoneAsTuple(x) == IF x = PyNone THEN PyEmptyTuple ELSE x

\* a resolution without the check of lines 156-157
get_thresholds_for_time_unguarded(warning, critical, time_periods, timestamp, utcoffset) ==
    ResolveGiven(NoneAsTuple(warning), NoneAsTuple(critical), time_periods,
                 timestamp, utcoffset)

get_thresholds_for_time(warning, critical, time_periods, timestamp, utcoffset) ==
    IF warning = PyNone /\ critical = PyNone THEN Raise("InvalidParameterError")
    ELSE ResolveGiven(NoneAsTuple(warning), NoneAsTuple(critical), time_periods,
                      timestamp, utcoffset)

-----------------------------------------------------------------------------
(* NagiosPlugin *)

STATUS_OK == 0
STATUS_WARNING == 1
STATUS_CRITICAL == 2
STATUS_UNKNOWN == 3

\* the plugin has no 'thresholds' attribute until set_thresholds assigns one
NoThresholds == [exists |-> FALSE, obj |-> ThresholdsObject(FALSE, NoRange, FALSE, NoRange)]
HasThresholds(obj) == [exists |-> TRUE, obj |-> obj]

\* truth value of a parameter: None and '' are false
Truthy(x) == x.t = "str" /\ Len(x.s) > 0

\* set_thresholds(warning, critical, time_periods) at time.time() = now: the
\* value of self.thresholds afterwards, or the exception raised
set_thresholds(warning, critical, time_periods, now, utcoffset) ==
    IF Truthy(warning) \/ Truthy(critical)
    THEN Try(get_thresholds_for_time(warning, critical, time_periods, now, utcoffset),
             LAMBDA for_now :
                 Try(Thresholds(for_now.warning, for_now.critical),
                     LAMBDA t : Ok(HasThresholds(t))))
    ELSE Ok(NoThresholds)

\* a bug that tests the warning range before the critical one
calculate_status_warning_first(self_thresholds, value) ==
    IF self_thresholds.exists
    THEN Try(value_is_warning(self_thresholds.obj, value), LAMBDA warning :
             IF warning THEN Ok(STATUS_WARNING)
             ELSE Try(value_is_critical(self_thresholds.obj, value), LAMBDA critical :
                      IF critical THEN Ok(STATUS_CRITICAL) ELSE Ok(STATUS_OK)))
    ELSE Ok(STATUS_OK)

\* the classes of nagiosplugin.py that derive from NagiosPluginError, and the
\* base class
PluginErrors ==
    {"NagiosPluginError", "InvalidStatisticError", "UnexpectedResponseError",
     "ThresholdValidatorError", "ThresholdTimePeriodError", "InvalidParameterError"}

\* the exit status of a process that is still running, and the one Python
\* ends with after an exception nothing catches
Running == -1
UncaughtExit == 1

\* __main__: sys.exit(status) after the check; the plugin's errors are caught
\* and give STATUS_UNKNOWN, any other exception is not caught
main(exc, checker_status) ==
    IF exc = "none" THEN checker_status
    ELSE IF exc \in PluginErrors THEN STATUS_UNKNOWN
    ELSE UncaughtExit

\* _calculate_status(value)
calculate_status(self_thresholds, value) ==
    IF self_thresholds.exists
    THEN Try(value_is_critical(self_thresholds.obj, value), LAMBDA critical :
             IF critical THEN Ok(STATUS_CRITICAL)
             ELSE Try(value_is_warning(self_thresholds.obj, value), LAMBDA warning :
                      IF warning THEN Ok(STATUS_WARNING) ELSE Ok(STATUS_OK)))
    ELSE Ok(STATUS_OK)

-----------------------------------------------------------------------------
(* Numbers of the rate computation *)

\* the precision rates are rounded to (Defaults.delta_precision)
delta_precision == 2

\* numbers are held in units of 10^-delta_precision: an int n as Scale * n, a
\* float as its value times Scale (every float the plugin forms is a rate
\* rounded to delta_precision digits or a whole number)
Scale == 10 ^ delta_precision

IntNumber(n) == [t |-> "int", c |-> Scale * n, s |-> <<>>]
FloatNumber(c) == [t |-> "float", c |-> c, s |-> <<>>]
StrOf(s) == [t |-> "str", c |-> 0, s |-> s]
NoneValue == [t |-> "None", c |-> 0, s |-> <<>>]

\* a / b rounded to the nearest integer, halves away from zero (b > 0)
RoundDiv(a, b) ==
    IF a >= 0 THEN (2 * a + b) \div (2 * b) ELSE 0 - ((2 * (0 - a) + b) \div (2 * b))

\* a / b rounded towards minus infinity, as `/` on two ints (b # 0)
FloorDiv(a, b) ==
    IF b > 0
    THEN (IF a >= 0 THEN a \div b ELSE 0 - (((0 - a) + b - 1) \div b))
    ELSE (IF a <= 0 THEN (0 - a) \div (0 - b) ELSE 0 - ((a + (0 - b) - 1) \div (0 - b)))

\* a / b rounded towards zero, as int() of a float (b > 0)
TruncDiv(a, b) == IF a >= 0 THEN a \div b ELSE 0 - ((0 - a) \div b)

\* float(string) for a str of digits with one '.' and at most delta_precision
\* digits after it; the strings fetched hold nothing else that float accepts
PyFloatOfStr(s) ==
    IF /\ Contains(s, ".")
       /\ IsDigits(SubSeq(s, 1, IndexOf(s, ".") - 1))
       /\ IsDigits(SubSeq(s, IndexOf(s, ".") + 1, Len(s)))
       /\ Len(s) - IndexOf(s, ".") <= delta_precision
    THEN Ok(FloatNumber(Scale * DecimalValue(SubSeq(s, 1, IndexOf(s, ".") - 1))
                        + DecimalValue(SubSeq(s, IndexOf(s, ".") + 1, Len(s)))
                          * 10 ^ (delta_precision - (Len(s) - IndexOf(s, ".")))))
    ELSE Raise("ValueError")

\* NumberUtils.string_to_number: int(string); on ValueError float(string),
\* whose own ValueError is not caught; on TypeError (None) 0
string_to_number(string) ==
    IF string.t = "None" THEN Ok(IntNumber(0))
    ELSE IF string.t = "int" THEN Ok(string)
    ELSE IF string.t = "float" THEN Ok(IntNumber(TruncDiv(string.c, Scale)))
    ELSE IF PyInt(string.s).exc = "none" THEN Ok(IntNumber(PyInt(string.s).val))
    ELSE PyFloatOfStr(string.s)

\* x - y: an int when both are ints
Minus(x, y) ==
    [t |-> IF x.t = "int" /\ y.t = "int" THEN "int" ELSE "float", c |-> x.c - y.c, s |-> <<>>]

-----------------------------------------------------------------------------
(* TimestampedStatisticCollection and _get_delta *)

\* MemcachedStats.CACHE_HITS_PERCENTAGE and the keys its two baselines are
\* stored under
CACHE_HITS_PERCENTAGE == "cache_hits_percentage"
GetHitsSubKey == "get_hits_hit_cache_perc"
CmdGetSubKey == "cmd_get_hit_cache_perc"

\* the keys a store of the model can hold
StoreKeys ==
    {"get_hits", "cmd_get", "version", CACHE_HITS_PERCENTAGE, GetHitsSubKey, CmdGetSubKey}

\* an entry {"time": .., "value": ..}, and the absence of one
Entry(time, value) == [present |-> TRUE, time |-> time, value |-> value]
NoEntry == [present |-> FALSE, time |-> 0, value |-> NoneValue]

\* the data of a new collection
EmptyStore == [k \in StoreKeys |-> NoEntry]

\* _get_value_from_last_invocation: the entry, or {} (no entry)
get_value_from_last_invocation(data, statistic) == data[statistic]

\* a __setitem__ that stamps every entry of the collection with the time of
\* the call
SetItemStampingAll(data, key, value, now) ==
    [k \in StoreKeys |->
        IF k = key THEN Entry(now, value)
        ELSE IF data[k].present THEN Entry(now, data[k].value)
        ELSE data[k]]

\* __setitem__: the value is stored with the time of the call
SetItem(data, key, value, now) == [data EXCEPT ![key] = Entry(now, value)]

\* the clock counts thirds of a second; round(time() - previous['time']) in
\* whole seconds
TicksPerSecond == 3
DeltaTime(now, previous_time) == RoundDiv(now - previous_time, TicksPerSecond)

\* a rate that takes an elapsed time of 0 for one second
RoundedRateOverAtLeastASecond(delta, delta_time) ==
    IF delta_time = 0 THEN FloatNumber(delta.c) ELSE FloatNumber(RoundDiv(delta.c, delta_time))

\* round(delta / delta_time, delta_precision); a ZeroDivisionError leaves
\* delta_value at 0
RoundedRate(delta, delta_time) ==
    IF delta_time = 0 THEN IntNumber(0) ELSE FloatNumber(RoundDiv(delta.c, delta_time))

\* the delta of a statistic other than the percentage, from the converted
\* current value: a missing entry is a KeyError, which leaves delta_value at 0
DeltaOfNumber(previous, current_number, now) ==
    IF ~previous.present THEN Ok(IntNumber(0))
    ELSE Try(string_to_number(previous.value), LAMBDA previous_number :
             Ok(RoundedRate(Minus(current_number, previous_number),
                            DeltaTime(now, previous.time))))

\* a computation that takes the current value itself as the delta of every
\* statistic
DeltaValueOfCurrentAlone(previous, statistic, current_value, now) ==
    IF ~previous.present THEN Ok(IntNumber(0))
    ELSE Try(string_to_number(current_value), LAMBDA current_number :
             Ok(RoundedRate(current_number, DeltaTime(now, previous.time))))

\* lines 172-186 of _get_delta: the value of delta_value, or the exception
\* that leaves the try block
DeltaValue(previous, statistic, current_value, now) ==
    IF statistic = CACHE_HITS_PERCENTAGE
    THEN (IF ~previous.present THEN Ok(IntNumber(0))
          ELSE Ok(RoundedRate(current_value, DeltaTime(now, previous.time))))
    ELSE Try(string_to_number(current_value), LAMBDA current_number :
             DeltaOfNumber(previous, current_number, now))

\* lines 153-158 of _get_statistic: the percentage from the two deltas, both
\* converted to ints, with the `/` of ints
CacheHitsPercentage(get_hits_delta, cmd_get_delta) ==
    Try(string_to_number(get_hits_delta), LAMBDA delta_cache_hits :
        Try(string_to_number(cmd_get_delta), LAMBDA delta_gets :
            IF delta_gets.c = 0 THEN Ok(IntNumber(0))
            ELSE Ok(FloatNumber(Scale * FloorDiv(TruncDiv(delta_cache_hits.c, Scale) * 100,
                                                 TruncDiv(delta_gets.c, Scale))))))

-----------------------------------------------------------------------------
(* Inputs *)

\* characters of the threshold strings drawn: the grammar's '@', '~', ':' and
\* digits, a sign and a letter that the grammar does not know
Alphabet == {"@", "~", ":", "-", "a", "0", "1"}

ThresholdStrings == UNION {[1..k -> Alphabet] : k \in 0..MaxLen}

\* ','.join(list)
RECURSIVE Join(_, _)
Join(list, sep) ==
    IF Len(list) = 0 THEN <<>>
    ELSE IF Len(list) = 1 THEN list[1]
    ELSE list[1] \o <<sep>> \o Join(Tail(list), sep)

\* the clock time HH:MM as text, and the period from a to b as text
T(h, m) == Pad2(h) \o <<":">> \o Pad2(m)
Period(a, b) == a \o <<"-">> \o b

\* the lists of one to MaxPeriods elements of S
ListsOf(S) == UNION {[1..k -> S] : k \in 1..MaxPeriods}

\* the times the periods of a calendar are cut at
BoundaryTimes == {T(0, 0), T(8, 0), T(16, 0), T(24, 0)}

\* other texts given as a time: the last minute, an hour and a minute out of
\* range, a one-digit hour, letters, nothing
OddTimes == {T(23, 59), T(25, 0), T(12, 60), <<"8", ":", "0", "0">>,
             <<"a", "b", ":", "c", "d">>, <<>>}

\* texts given as one time period: with one '-', with none, with two
PeriodStrings ==
    {Period(a, b) : a \in BoundaryTimes \cup OddTimes, b \in BoundaryTimes \cup OddTimes}
    \cup BoundaryTimes
    \cup {Period(Period(a, b), c) : a \in BoundaryTimes, b \in BoundaryTimes, c \in BoundaryTimes}

\* periods that calendars are built from: thirds and two thirds of the day,
\* the whole day, 24:00 as a start, 00:00 as an end, an end before the start
CalendarPeriods ==
    {Period(T(0, 0), T(8, 0)), Period(T(8, 0), T(16, 0)), Period(T(16, 0), T(24, 0)),
     Period(T(0, 0), T(16, 0)), Period(T(8, 0), T(24, 0)), Period(T(0, 0), T(24, 0)),
     Period(T(24, 0), T(8, 0)), Period(T(16, 0), T(0, 0)), Period(T(16, 0), T(8, 0))}

\* periods of the calendars a time is looked up in
SelectorPeriods ==
    {Period(T(0, 0), T(8, 0)), Period(T(8, 0), T(16, 0)), Period(T(16, 0), T(24, 0)),
     Period(T(0, 0), T(24, 0)), Period(T(16, 0), T(8, 0))}

\* periods of the calendars given to get_thresholds_for_time
ResolvePeriods ==
    {Period(T(0, 0), T(8, 0)), Period(T(8, 0), T(16, 0)), Period(T(16, 0), T(24, 0)),
     Period(T(0, 0), T(24, 0)), Period(T(16, 0), T(8, 0))}

\* a comma-separated list of k thresholds: 10,20,.. for warning (from = 0) and
\* 50,60,.. for critical (from = 4)
RECURSIVE ThresholdList(_, _)
ThresholdList(k, from) ==
    IF k = 1 THEN Dec(10 * (from + 1))
    ELSE ThresholdList(k - 1, from) \o <<",">> \o Dec(10 * (from + k))

WarningArgs == {PyNone} \cup {Str(ThresholdList(k, 0)) : k \in 1..MaxPeriods}
CriticalArgs == {PyNone} \cup {Str(ThresholdList(k, 4)) : k \in 1..MaxPeriods}
PeriodArgs == {PyNone} \cup {Str(Join(l, ",")) : l \in ListsOf(ResolvePeriods)}

\* seconds since the epoch of a UTC clock time on a day (days since 1970-01-01)
At(day, h, m, s) == day * 86400 + h * 3600 + m * 60 + s

ClockTimes ==
    {<<0, 0, 10>>, <<7, 56, 0>>, <<8, 0, 0>>, <<8, 0, 30>>, <<8, 1, 0>>,
     <<16, 40, 0>>, <<23, 59, 0>>, <<23, 59, 30>>}

\* 1 January 1970 and 1 January 2010
Days == {0, 14610}

Timestamps == {At(d, c[1], c[2], c[3]) : d \in Days, c \in ClockTimes}

\* the times of 1 January 2010 that thresholds are resolved for
ResolveTimestamps ==
    {At(14610, c[1], c[2], c[3]) :
        c \in {<<7, 56, 0>>, <<8, 0, 30>>, <<11, 32, 0>>, <<18, 32, 0>>, <<23, 59, 30>>}}

\* offsets of local time from UTC, in seconds
UtcOffsets == {0, 3600}

\* strs that float() does not convert
NonNumericValues == {StrValue(<<"a">>), StrValue(<<>>)}

\* values on, next to and far from the bounds of a range
ValuesAround(r) ==
    {NumValue(x) : x \in
        {-9999, -1, 0, 9999}
        \cup (IF r.start.kind = "int" THEN {r.start.n - 1, r.start.n, r.start.n + 1} ELSE {})
        \cup (IF r.end.kind = "int" THEN {r.end.n - 1, r.end.n, r.end.n + 1} ELSE {})}

-----------------------------------------------------------------------------
(* State *)

NoArg == [string |-> <<>>]

\* an invocation slot before the plugin is started in it
IdleInvocation(runs) ==
    [pc |-> "idle", statistic |-> "none", delta |-> FALSE, data |-> EmptyStore,
     todo |-> <<>>, get_hits |-> NoneValue, cmd_get |-> NoneValue,
     statistic_value |-> NoneValue, key |-> "none", previous |-> NoEntry,
     current |-> NoneValue, now |-> 0, delta_value |-> NoneValue, error |-> "none",
     deltas |-> <<>>, loads |-> 0, persists |-> 0, sets |-> <<>>,
     status |-> STATUS_UNKNOWN, exit |-> Running, runs |-> runs]

\* the two invocation slots
Procs == {1, 2}

NoCall ==
    /\ pc = "init"
    /\ arg = NoArg
    /\ ret = Raise("not called")
    /\ thresholds = NoThresholds
    /\ status = STATUS_UNKNOWN
    /\ exit_status = Running

\* no delta file yet, in a directory that can be written
NoDeltaFile ==
    /\ clock = [now |-> 0, ticks |-> 0]
    /\ file = [state |-> "missing", data |-> EmptyStore, writable |-> TRUE]
    /\ inv = [p \in Procs |-> IdleInvocation(0)]

Init == NoCall /\ NoDeltaFile

-----------------------------------------------------------------------------
(* The range grammar and the matcher, one call per behaviour *)

\* ThresholdParser.validate(string)
CallValidate ==
    /\ pc = "init"
    /\ \E s \in ThresholdStrings :
          /\ arg' = [string |-> s]
          /\ ret' = validate(s)
    /\ pc' = "validate"
    /\ UNCHANGED <<thresholds, status>>
    /\ UNCHANGED delta_vars
    /\ UNCHANGED exit_status

\* ThresholdParser.parse(range)
CallParse ==
    /\ pc = "init"
    /\ \E s \in ThresholdStrings :
          /\ arg' = [string |-> s]
          /\ ret' = parse(s)
    /\ pc' = "parse"
    /\ UNCHANGED <<thresholds, status>>
    /\ UNCHANGED delta_vars
    /\ UNCHANGED exit_status

\* Thresholds(warning, None).value_is_warning(value), for every warning string
\* the constructor accepts
CallMatch ==
    /\ pc = "init"
    /\ \E s \in ThresholdStrings :
          /\ Thresholds(Str(s), PyNone).exc = "none"
          /\ thresholds' = HasThresholds(Thresholds(Str(s), PyNone).val)
          /\ thresholds'.obj.has_warning_values
          /\ \E v \in ValuesAround(thresholds'.obj.warning_values) :
                /\ arg' = [string |-> s, value |-> v]
                /\ ret' = value_is_warning(thresholds'.obj, v)
    /\ pc' = "match"
    /\ UNCHANGED status
    /\ UNCHANGED delta_vars
    /\ UNCHANGED exit_status

NextRange == CallValidate \/ CallParse \/ CallMatch

SpecRange == Init /\ [][NextRange]_vars

-----------------------------------------------------------------------------
(* The time-period calendar and selector, one call per behaviour *)

\* ThresholdParser.get_start_and_end_seconds_from_period(time_period)
CallPeriod ==
    /\ pc = "init"
    /\ \E p \in PeriodStrings, z \in UtcOffsets :
          /\ arg' = [time_period |-> p, utcoffset |-> z]
          /\ ret' = get_start_and_end_seconds_from_period(p, z)
    /\ pc' = "period"
    /\ UNCHANGED <<thresholds, status>>
    /\ UNCHANGED delta_vars
    /\ UNCHANGED exit_status

\* ThresholdParser.time_periods_cover_24_hours(time_period_values)
CallCover ==
    /\ pc = "init"
    /\ \E l \in ListsOf(CalendarPeriods), z \in UtcOffsets :
          /\ arg' = [time_period_values |-> l, utcoffset |-> z]
          /\ ret' = time_periods_cover_24_hours(l, z)
    /\ pc' = "cover"
    /\ UNCHANGED <<thresholds, status>>
    /\ UNCHANGED delta_vars
    /\ UNCHANGED exit_status

\* ThresholdParser.get_time_period_index(time_period_values, timestamp)
CallIndex ==
    /\ pc = "init"
    /\ \E l \in ListsOf(SelectorPeriods), ts \in Timestamps, z \in UtcOffsets :
          /\ arg' = [time_period_values |-> l, timestamp |-> ts, utcoffset |-> z]
          /\ ret' = get_time_period_index(l, ts, z)
    /\ pc' = "index"
    /\ UNCHANGED <<thresholds, status>>
    /\ UNCHANGED delta_vars
    /\ UNCHANGED exit_status

NextPeriods == CallPeriod \/ CallCover \/ CallIndex

SpecPeriods == Init /\ [][NextPeriods]_vars

-----------------------------------------------------------------------------
(* The resolution of the thresholds for a time, one call per behaviour *)

\* ThresholdParser.get_thresholds_for_time(warning, critical, time_periods, timestamp)
CallResolve ==
    /\ pc = "init"
    /\ \E w \in WarningArgs, c \in CriticalArgs, tp \in PeriodArgs,
          ts \in ResolveTimestamps, z \in UtcOffsets :
          /\ arg' = [warning |-> w, critical |-> c, time_periods |-> tp,
                     timestamp |-> ts, utcoffset |-> z]
          /\ ret' = get_thresholds_for_time(w, c, tp, ts, z)
    /\ pc' = "resolve"
    /\ UNCHANGED <<thresholds, status>>
    /\ UNCHANGED delta_vars
    /\ UNCHANGED exit_status

NextResolve == CallResolve

SpecResolve == Init /\ [][NextResolve]_vars

-----------------------------------------------------------------------------
(* One invocation of a plugin: construction, then the check of a value *)

\* thresholds given on the command line of the plugin
CommandLineThresholds ==
    {PyNone, Str(<<>>), Str(<<"1">>), Str(<<"1", ":">>), Str(<<"@", "1">>),
     Str(<<"~", ":", "1">>), Str(<<"@", "0", ":", "1">>), Str(<<"1", "0">>),
     Str(<<"1", ":", "0">>), Str(<<"a">>), Str(<<"1", ",", "1", "0">>),
     Str(<<"1", ",", "a">>)}

CommandLinePeriods ==
    {PyNone, Str(Period(T(0, 0), T(24, 0))),
     Str(Join(<<Period(T(0, 0), T(8, 0)), Period(T(8, 0), T(24, 0))>>, ","))}

\* values fetched from the service: numbers, a numeric str and strs that are
\* no number
FetchedValues ==
    {NumValue(x) : x \in {-1, 0, 1, 2, 9, 10, 11}}
    \cup {StrValue(<<"1">>)} \cup NonNumericValues

\* NagiosPlugin.__init__: status is STATUS_UNKNOWN, then set_thresholds; an
\* exception ends the invocation with the status unchanged, through __main__
Construct ==
    /\ pc = "init"
    /\ \E w \in CommandLineThresholds, c \in CommandLineThresholds,
          tp \in CommandLinePeriods, now \in {At(14610, 7, 56, 0), At(14610, 18, 32, 0)} :
          /\ arg' = [warning |-> w, critical |-> c, time_periods |-> tp, now |-> now]
          /\ ret' = set_thresholds(w, c, tp, now, 0)
    /\ thresholds' = IF ret'.exc = "none" THEN ret'.val ELSE NoThresholds
    /\ pc' = IF ret'.exc = "none" THEN "constructed" ELSE "failed"
    /\ exit_status' = IF ret'.exc = "none" THEN Running ELSE main(ret'.exc, status)
    /\ UNCHANGED status
    /\ UNCHANGED delta_vars

\* check(): the fetched value is given to _calculate_status; an exception ends
\* the invocation with the status unchanged; __main__ exits
Check ==
    /\ pc = "constructed"
    /\ \E v \in FetchedValues :
          /\ arg' = [value |-> v]
          /\ ret' = calculate_status(thresholds, v)
    /\ status' = IF ret'.exc = "none" THEN ret'.val ELSE status
    /\ pc' = IF ret'.exc = "none" THEN "checked" ELSE "failed"
    /\ exit_status' = main(ret'.exc, status')
    /\ UNCHANGED thresholds
    /\ UNCHANGED delta_vars

Next == Construct \/ Check

Spec == Init /\ [][Next]_vars

-----------------------------------------------------------------------------
(* Invocations of check_memcached.py on one delta file *)

\* what the memcached server returns for a statistic: counters as digits, the
\* version as text that is no number
Fetched(statistic) ==
    IF statistic = "version" THEN {StrOf(<<"1", ".", "4", ".", "5">>)}
    ELSE IF statistic = "cmd_get" THEN {StrOf(Dec(300))}
    ELSE {StrOf(Dec(100)), StrOf(Dec(150))}

\* the statistics checked by invocations that run one after the other, and by
\* invocations that run at the same time
CheckedInTurn == {"get_hits", "version", CACHE_HITS_PERCENTAGE}
CheckedTogether == {"get_hits", "cmd_get"}

\* the advances of the clock: a third of a second, and nearly ten seconds
TickSteps == {1, 29}

\* a collection that starts empty whatever the file holds
LoadAsNew(slot) ==
    IF file.state = "truncated"
    THEN [slot EXCEPT !.pc = "crashed", !.error = "EOFError", !.loads = slot.loads + 1,
                      !.exit = main("EOFError", slot.status)]
    ELSE [slot EXCEPT !.pc = "constructed", !.loads = slot.loads + 1, !.data = EmptyStore]

\* TimestampedStatisticCollection.__init__ / __load: a missing file is an
\* IOError, which is caught; a file opened for writing by another invocation
\* and not yet written is empty, and pickle.load raises EOFError
Load(slot) ==
    IF file.state = "truncated"
    THEN [slot EXCEPT !.pc = "crashed", !.error = "EOFError", !.loads = slot.loads + 1,
                      !.exit = main("EOFError", slot.status)]
    ELSE [slot EXCEPT !.pc = "constructed", !.loads = slot.loads + 1,
                      !.data = IF file.state = "written" THEN file.data ELSE EmptyStore]

\* the rate computations check() makes, by key, in order
RateKeys(statistic, delta) ==
    (IF statistic = CACHE_HITS_PERCENTAGE THEN <<GetHitsSubKey, CmdGetSubKey>> ELSE <<>>)
    \o (IF delta THEN <<statistic>> ELSE <<>>)

\* the current value _get_delta is called with for a key
CurrentValue(slot, key) ==
    IF key = GetHitsSubKey THEN slot.get_hits
    ELSE IF key = CmdGetSubKey THEN slot.cmd_get
    ELSE slot.statistic_value

\* pickle.dump(self.data, file) into the file opened with 'w+': the whole
\* collection, merged with whatever the file holds by then
DumpedOnto(data, on_disk) ==
    [k \in StoreKeys |-> IF data[k].present THEN data[k] ELSE on_disk[k]]

\* pickle.dump(self.data, file) into the file opened with 'w+': the whole
\* collection replaces what the file holds
Dumped(data, on_disk) == data

\* MemcachedStats(sys.argv[1:]): NagiosPlugin.__init__ loads the delta file
Invoke(p, statistics, most) ==
    /\ inv[p].pc = "idle"
    /\ inv[p].runs < most
    /\ \E statistic \in statistics, delta \in BOOLEAN :
          inv' = [inv EXCEPT ![p] = Load([inv[p] EXCEPT !.statistic = statistic,
                                                        !.delta = delta,
                                                        !.runs = inv[p].runs + 1])]
    /\ UNCHANGED <<clock, file>>
    /\ UNCHANGED call_vars

\* a check that takes the percentage as fetched, without its two baselines
FetchingWithoutBaselines(slot, v, g) ==
    [slot EXCEPT !.statistic_value = v,
                 !.todo = IF slot.delta THEN <<slot.statistic>> ELSE <<>>,
                 !.pc = IF slot.delta THEN "rating" ELSE "ready"]

\* the slot with the values fetched: v for the statistic (or for get_hits) and
\* g for cmd_get
Fetching(slot, v, g) ==
    IF slot.statistic = CACHE_HITS_PERCENTAGE
    THEN [slot EXCEPT !.get_hits = v, !.cmd_get = g,
                      !.todo = RateKeys(slot.statistic, slot.delta),
                      !.pc = "rating"]
    ELSE [slot EXCEPT !.statistic_value = v,
                      !.todo = RateKeys(slot.statistic, slot.delta),
                      !.pc = IF slot.delta THEN "rating" ELSE "ready"]

\* check(), lines 199-200: _get_statistic fetches the statistic, or get_hits
\* and cmd_get for the percentage
Fetch(p) ==
    /\ inv[p].pc = "constructed"
    /\ \E v \in Fetched(inv[p].statistic), g \in Fetched("cmd_get") :
          inv' = [inv EXCEPT ![p] = Fetching(inv[p], v, g)]
    /\ UNCHANGED <<clock, file>>
    /\ UNCHANGED call_vars

\* the slot after lines 172-188 of _get_delta for its next key: an exception
\* that is not caught ends the invocation before the collection is changed
AfterDelta(slot, key, r) ==
    IF r.exc # "none"
    THEN [slot EXCEPT !.pc = "crashed", !.error = r.exc, !.exit = main(r.exc, slot.status),
                      !.key = key,
                      !.previous = slot.data[key], !.current = CurrentValue(slot, key),
                      !.now = clock.now]
    ELSE [slot EXCEPT !.pc = "persisting", !.key = key,
                      !.previous = slot.data[key], !.current = CurrentValue(slot, key),
                      !.now = clock.now, !.delta_value = r.val,
                      !.data = SetItem(slot.data, key, CurrentValue(slot, key), clock.now),
                      !.sets = Append(slot.sets, key)]

\* _get_delta, lines 172-188: the delta is computed and the collection is
\* given the current value
GetDelta(p) ==
    /\ inv[p].pc = "rating"
    /\ inv' = [inv EXCEPT ![p] =
                 AfterDelta(inv[p], Head(inv[p].todo),
                            DeltaValue(get_value_from_last_invocation(inv[p].data,
                                                                      Head(inv[p].todo)),
                                       Head(inv[p].todo),
                                       CurrentValue(inv[p], Head(inv[p].todo)),
                                       clock.now))]
    /\ UNCHANGED <<clock, file>>
    /\ UNCHANGED call_vars

\* persist(), open(self.path, 'w+'): the file is truncated; an IOError
\* becomes a NagiosPluginError
PersistOpen(p) ==
    /\ inv[p].pc = "persisting"
    /\ IF file.writable
       THEN /\ file' = [file EXCEPT !.state = "truncated", !.data = EmptyStore]
            /\ inv' = [inv EXCEPT ![p].pc = "dumping"]
       ELSE /\ inv' = [inv EXCEPT ![p].pc = "failed", ![p].error = "NagiosPluginError",
                                  ![p].exit = main("NagiosPluginError", inv[p].status)]
            /\ UNCHANGED file
    /\ UNCHANGED clock
    /\ UNCHANGED call_vars

\* the slot when _get_delta has returned delta_value for a key
AfterReturn(slot, key) ==
    IF key = GetHitsSubKey
    THEN [slot EXCEPT !.pc = "rating"]
    ELSE IF key = CmdGetSubKey
    THEN [slot EXCEPT !.statistic_value = CacheHitsPercentage(slot.deltas[1], slot.deltas[2]).val,
                      !.pc = IF slot.todo = <<>> THEN "ready" ELSE "rating"]
    ELSE [slot EXCEPT !.statistic_value = slot.delta_value, !.pc = "ready"]

\* persist(), pickle.dump and close, and the return of _get_delta
PersistDump(p) ==
    /\ inv[p].pc = "dumping"
    /\ file' = [file EXCEPT !.state = "written", !.data = Dumped(inv[p].data, file.data)]
    /\ inv' = [inv EXCEPT ![p] =
                 AfterReturn([inv[p] EXCEPT !.persists = inv[p].persists + 1,
                                            !.deltas = Append(inv[p].deltas, inv[p].delta_value),
                                            !.todo = Tail(inv[p].todo)],
                             Head(inv[p].todo))]
    /\ UNCHANGED clock
    /\ UNCHANGED call_vars

\* check(), line 206: the status of the value, no thresholds being set, and
\* sys.exit(status)
Finish(p) ==
    /\ inv[p].pc = "ready"
    /\ inv' = [inv EXCEPT ![p].status = calculate_status(NoThresholds, inv[p].statistic_value).val,
                          ![p].exit = main("none", calculate_status(NoThresholds,
                                                                    inv[p].statistic_value).val),
                          ![p].pc = "done"]
    /\ UNCHANGED <<clock, file>>
    /\ UNCHANGED call_vars

\* the process ends; the slot is free for the next invocation
Exit(p) ==
    /\ inv[p].pc \in {"done", "crashed", "failed"}
    /\ inv[p].runs < MaxInvocations
    /\ inv' = [inv EXCEPT ![p] = IdleInvocation(inv[p].runs)]
    /\ UNCHANGED <<clock, file>>
    /\ UNCHANGED call_vars

\* time passes
Tick ==
    /\ clock.ticks < MaxTicks
    /\ \E d \in TickSteps : clock' = [now |-> clock.now + d, ticks |-> clock.ticks + 1]
    /\ UNCHANGED <<file, inv>>
    /\ UNCHANGED call_vars

\* the collection earlier invocations have persisted at time 0: get_hits at
\* "100", the two baselines of the percentage at "100" and "200", and a
\* percentage of 50.0
EarlierStore ==
    [k \in StoreKeys |->
        IF k \in {"get_hits", GetHitsSubKey} THEN Entry(0, StrOf(Dec(100)))
        ELSE IF k \in {"cmd_get", CmdGetSubKey} THEN Entry(0, StrOf(Dec(200)))
        ELSE IF k = CACHE_HITS_PERCENTAGE THEN Entry(0, FloatNumber(50 * Scale))
        ELSE NoEntry]

\* no delta file yet, or the file of earlier invocations, in a directory that
\* may not be writable
InitDelta ==
    /\ NoCall
    /\ clock = [now |-> 0, ticks |-> 0]
    /\ \E w \in BOOLEAN :
          \/ file = [state |-> "missing", data |-> EmptyStore, writable |-> w]
          \/ file = [state |-> "written", data |-> EarlierStore, writable |-> w]
    /\ inv = [p \in Procs |-> IdleInvocation(0)]

\* invocations one after the other
InvokeInTurn == Invoke(1, CheckedInTurn, MaxInvocations)

NextDelta ==
    \/ Tick
    \/ InvokeInTurn
    \/ Fetch(1)
    \/ GetDelta(1)
    \/ PersistOpen(1)
    \/ PersistDump(1)
    \/ Finish(1)
    \/ Exit(1)

SpecDelta == InitDelta /\ [][NextDelta]_vars

\* two invocations at the same time
InvokeTogether(p) == Invoke(p, CheckedTogether, 1)

NextRace ==
    \E p \in Procs :
        \/ InvokeTogether(p)
        \/ Fetch(p)
        \/ GetDelta(p)
        \/ PersistOpen(p)
        \/ PersistDump(p)
        \/ Finish(p)

SpecRace == Init /\ [][NextRace]_vars

-----------------------------------------------------------------------------
(* Vocabulary of the properties *)

\* the value lies in the closed interval, an infinite bound always satisfied
InsideClosed(r, x) ==
    /\ (r.start.kind = "int" => r.start.n <= x)
    /\ (r.end.kind = "int" => x <= r.end.n)

\* the value is strictly below a finite low or strictly above a finite high
StrictlyOutside(r, x) ==
    \/ (r.start.kind = "int" /\ x < r.start.n)
    \/ (r.end.kind = "int" /\ x > r.end.n)

\* the threshold without its single optional leading '@'
Body(s) == IF StartsWith(s, "@") THEN Tail(s) ELSE s

\* the documented forms of a threshold body: 'N', 'N:', 'N:M', '~:M'
FormN(b) == IsDigits(b)
FormNColon(b) == Len(b) > 1 /\ b[Len(b)] = ":" /\ IsDigits(SubSeq(b, 1, Len(b) - 1))
FormNM(b) ==
    \E i \in 2..(Len(b) - 1) :
        /\ b[i] = ":"
        /\ IsDigits(SubSeq(b, 1, i - 1))
        /\ IsDigits(SubSeq(b, i + 1, Len(b)))
FormTildeM(b) == Len(b) > 2 /\ b[1] = "~" /\ b[2] = ":" /\ IsDigits(SubSeq(b, 3, Len(b)))
DocumentedForm(s) ==
    FormN(Body(s)) \/ FormNColon(Body(s)) \/ FormNM(Body(s)) \/ FormTildeM(Body(s))

\* the digits before and after the ':' of a body that has one
LowText(b) == SubSeq(b, 1, IndexOf(b, ":") - 1)
HighText(b) == SubSeq(b, IndexOf(b, ":") + 1, Len(b))

\* a bound is the number a run of digits writes: printing the number gives
\* the digits back, leading zeros apart
Canonical(digits) == IF LStrip(digits, "0") = <<>> THEN <<"0">> ELSE LStrip(digits, "0")
Denotes(bound, digits) ==
    bound.kind = "int" /\ bound.n >= 0 /\ Dec(bound.n) = Canonical(digits)

\* the threshold grammar ["@"] [ (digits | "~") [":"] ] [digits], by decomposition
GrammarLow(b) ==
    \/ b = <<>>
    \/ b = <<"~">> \/ b = <<"~", ":">>
    \/ IsDigits(b)
    \/ FormNColon(b)
GrammarHigh(c) == c = <<>> \/ IsDigits(c)
InGrammar(s) ==
    \E j \in 0..Len(Body(s)) :
        /\ GrammarLow(SubSeq(Body(s), 1, j))
        /\ GrammarHigh(SubSeq(Body(s), j + 1, Len(Body(s))))

\* the range alerts on the value: inside it when the flag is set (the
\* threshold had an '@'), strictly outside it otherwise
Alerts(r, x) == IF r.flag THEN InsideClosed(r, x) ELSE StrictlyOutside(r, x)

\* the number a fetched value stands for
NumericOf(value) == IF value.t = "num" THEN value.n ELSE PyInt(value.s).val

\* a text that writes an hour 0..23, a ':' and a minute 0..59, each with one
\* or two digits
ValidClockText(text) ==
    \E i \in {2, 3} :
        /\ i < Len(text) /\ Len(text) - i <= 2 /\ text[i] = ":"
        /\ IsDigits(SubSeq(text, 1, i - 1))
        /\ IsDigits(SubSeq(text, i + 1, Len(text)))
        /\ DecimalValue(SubSeq(text, 1, i - 1)) <= 23
        /\ DecimalValue(SubSeq(text, i + 1, Len(text))) <= 59

\* seconds after midnight of a valid clock text
ClockSeconds(text) ==
    DecimalValue(SubSeq(text, 1, IndexOf(text, ":") - 1)) * 3600
    + DecimalValue(SubSeq(text, IndexOf(text, ":") + 1, Len(text))) * 60

\* the two sides of a period text with one '-'
StartText(p) == SubSeq(p, 1, IndexOf(p, "-") - 1)
EndText(p) == SubSeq(p, IndexOf(p, "-") + 1, Len(p))
OneDash(p) == Cardinality({i \in 1..Len(p) : p[i] = "-"}) = 1

\* the normalised span of a period, in seconds after midnight: a start of
\* 24:00 is 00:00, an end of 24:00 or 00:00 is 23:59
StartSeconds(p) == IF StartText(p) = T(24, 0) THEN 0 ELSE ClockSeconds(StartText(p))
EndSeconds(p) ==
    IF EndText(p) = T(24, 0) \/ EndText(p) = T(0, 0) THEN 23 * 3600 + 59 * 60
    ELSE ClockSeconds(EndText(p))

ValidPeriod(p) ==
    /\ OneDash(p)
    /\ (StartText(p) = T(24, 0) \/ ValidClockText(StartText(p)))
    /\ (EndText(p) = T(24, 0) \/ ValidClockText(EndText(p)))
    /\ StartSeconds(p) <= EndSeconds(p)

AllValid(list) == \A i \in 1..Len(list) : ValidPeriod(list[i])

RECURSIVE SumOfDurations(_)
SumOfDurations(list) ==
    IF Len(list) = 0 THEN 0
    ELSE (EndSeconds(list[1]) - StartSeconds(list[1])) + SumOfDurations(Tail(list))

\* the period spans the time of day, both ends included
Spans(p, time_of_day) == StartSeconds(p) <= time_of_day /\ time_of_day <= EndSeconds(p)

\* position i is the first period of the list that spans the time of day
FirstSpanning(list, i, time_of_day) ==
    /\ Spans(list[i], time_of_day)
    /\ \A j \in 1..(i - 1) : ~Spans(list[j], time_of_day)

\* the time of day of a timestamp, the date discarded: in seconds, and with
\* the seconds of the running minute dropped
SecondOfDay(timestamp) == timestamp % 86400
MinuteOfDay(timestamp) == (timestamp % 86400) - (timestamp % 60)

-----------------------------------------------------------------------------
(* Properties of the range matcher *)

\* C2: with the flag that parse returns, a threshold without '@' matches a
\* value iff the value is strictly below a finite low or strictly above a
\* finite high, and a threshold with '@' matches iff low <= value <= high, an
\* infinite bound being always satisfied.
C2_MatchFollowsAt ==
    pc = "match" =>
        /\ ret.exc = "none"
        /\ ret.val = IF StartsWith(arg.string, "@")
                     THEN InsideClosed(thresholds.obj.warning_values, arg.value.n)
                     ELSE StrictlyOutside(thresholds.obj.warning_values, arg.value.n)

\* range 0..10 without '@': 11 matches, and 10 does not
C2_Witness ==
    /\ pc = "match"
    /\ arg.string = <<"0", ":", "1", "0">>
    /\ arg.value.n = 11
    /\ ret.val = TRUE

\* C3 as stated: flag false matches inside the closed interval, flag true
\* matches strictly outside it.
C3_AsStated ==
    pc = "match" =>
        ret.val = IF ~thresholds.obj.warning_values.flag
                  THEN InsideClosed(thresholds.obj.warning_values, arg.value.n)
                  ELSE StrictlyOutside(thresholds.obj.warning_values, arg.value.n)

\* C3 amended: the flag parse sets is true exactly when the threshold starts
\* with '@'; with the flag true a value matches iff it lies in the closed
\* interval [low, high], with the flag false iff value < low (low finite) or
\* value > high (high finite).
C3_FlagTrueAlertsInside ==
    pc = "match" =>
        /\ thresholds.obj.warning_values.flag = StartsWith(arg.string, "@")
        /\ ret.val = IF thresholds.obj.warning_values.flag
                     THEN InsideClosed(thresholds.obj.warning_values, arg.value.n)
                     ELSE StrictlyOutside(thresholds.obj.warning_values, arg.value.n)

\* '@10:' has the flag set and matches the value 10, on its low bound
C3_Witness ==
    /\ pc = "match"
    /\ arg.string = <<"@", "1", "0", ":">>
    /\ thresholds.obj.warning_values.flag
    /\ arg.value.n = 10
    /\ ret.val = TRUE

-----------------------------------------------------------------------------
(* Properties of the range grammar *)

\* C4: parse maps 'N' to (0, N, false), 'N:' to (N, +inf, false), 'N:M' (with
\* N <= M, see C5) to (N, M, false) and '~:M' to (-inf, M, false); the same
\* string with a leading '@' gives the same bounds with the flag true.
C4_ParseDocumentedForms ==
    pc = "parse" =>
        LET b == Body(arg.string)
            at == StartsWith(arg.string, "@")
            r == ret.val
        IN  /\ FormN(b) =>
                 /\ ret.exc = "none"
                 /\ r.start = Num(0) /\ Denotes(r.end, b) /\ r.flag = at
            /\ FormNColon(b) =>
                 /\ ret.exc = "none"
                 /\ Denotes(r.start, LowText(b)) /\ r.end = INFINITY /\ r.flag = at
            /\ (FormNM(b) /\ ret.exc = "none") =>
                 /\ Denotes(r.start, LowText(b)) /\ Denotes(r.end, HighText(b))
                 /\ r.flag = at
            /\ (FormNM(b) /\ DecimalValue(LowText(b)) <= DecimalValue(HighText(b))) =>
                 ret.exc = "none"
            /\ FormTildeM(b) =>
                 /\ ret.exc = "none"
                 /\ r.start = NEGATIVE_INFINITY /\ Denotes(r.end, HighText(b)) /\ r.flag = at

\* '@~:10' parses to (-inf, 10, true)
C4_Witness ==
    /\ pc = "parse"
    /\ arg.string = <<"@", "~", ":", "1", "0">>
    /\ ret.exc = "none"
    /\ ret.val = RangeTuple(NEGATIVE_INFINITY, Num(10), TRUE)

\* C5 as stated: parse raises ThresholdValidatorError for every 'low:high'
\* string whose two sides are integers with high < low, so every range that
\* parse returns has low <= high when both bounds are finite.
C5_AsStated ==
    pc = "parse" =>
        /\ ( /\ Contains(LStrip(arg.string, "@"), ":")
             /\ PyInt(Split(LStrip(arg.string, "@"), ":")[1]).exc = "none"
             /\ PyInt(Split(LStrip(arg.string, "@"), ":")[2]).exc = "none"
             /\ PyInt(Split(LStrip(arg.string, "@"), ":")[2]).val
                  < PyInt(Split(LStrip(arg.string, "@"), ":")[1]).val )
           => ret.exc = "ThresholdValidatorError"
        /\ ( /\ ret.exc = "none"
             /\ ret.val.start.kind = "int" /\ ret.val.end.kind = "int" )
           => ret.val.start.n <= ret.val.end.n

\* the order of the bounds is checked only where the string has a ':': the
\* ranges parse returns for strings that have a ':' or that validate accepts,
\* and so the ranges a Thresholds object holds, have low <= high
C5_HighNotBelowLow ==
    /\ pc = "parse" =>
         LET stripped == LStrip(arg.string, "@")
             lo == PyInt(Split(stripped, ":")[1])
             hi == PyInt(Split(stripped, ":")[2])
         IN  /\ ( /\ Contains(stripped, ":")
                  /\ lo.exc = "none" /\ hi.exc = "none"
                  /\ hi.val < lo.val ) => ret.exc = "ThresholdValidatorError"
             /\ ( /\ ret.exc = "none"
                  /\ (Contains(arg.string, ":") \/ InGrammar(arg.string))
                  /\ ret.val.start.kind = "int" /\ ret.val.end.kind = "int" )
                  => ret.val.start.n <= ret.val.end.n
    /\ pc = "match" =>
         LET r == thresholds.obj.warning_values
         IN  (r.start.kind = "int" /\ r.end.kind = "int") => r.start.n <= r.end.n

\* '0:-10' is refused at parse time
C5_Witness ==
    /\ pc = "parse"
    /\ arg.string = <<"0", ":", "-", "1", "0">>
    /\ ret.exc = "ThresholdValidatorError"

\* C6: validate returns True for every string of the forms 'N', 'N:', 'N:M',
\* '~:M' with or without a leading '@'; for every string outside the threshold
\* grammar it raises ThresholdValidatorError; it never returns False.
C6_ValidateTrueOrRaises ==
    pc = "validate" =>
        /\ DocumentedForm(arg.string) => (ret.exc = "none" /\ ret.val = TRUE)
        /\ ~InGrammar(arg.string) => ret.exc = "ThresholdValidatorError"
        /\ InGrammar(arg.string) => (ret.exc = "none" /\ ret.val = TRUE)
        /\ ret.exc \in {"none", "ThresholdValidatorError"}

\* ':10' is outside the grammar and is refused by raising
C6_Witness ==
    /\ pc = "validate"
    /\ arg.string = <<":", "1", "0">>
    /\ ret.exc = "ThresholdValidatorError"

-----------------------------------------------------------------------------
(* Properties of the time-period calendar and selector *)

\* the result of get_time_period_index agrees with the first period spanning
\* the given time of day
IndexIsFirstSpanning(time_of_day) ==
    /\ \A i \in 1..Len(arg.time_period_values) :
          ( /\ \A j \in 1..i : ValidPeriod(arg.time_period_values[j])
            /\ FirstSpanning(arg.time_period_values, i, time_of_day) )
          => (ret.exc = "none" /\ ret.val = i - 1)
    /\ ( /\ AllValid(arg.time_period_values)
         /\ \A i \in 1..Len(arg.time_period_values) :
               ~Spans(arg.time_period_values[i], time_of_day) )
       => ret.exc = "ThresholdTimePeriodError"

\* C8 as stated: the time of day keeps hours, minutes and seconds, and the
\* index returned is that of the first period whose [start, end] contains it.
C8_AsStated == pc = "index" => IndexIsFirstSpanning(SecondOfDay(arg.timestamp))

\* C8 amended: the time of day keeps the hours and minutes of the timestamp
\* (date and seconds are discarded); the periods are tried in the given order
\* and the index of the first whose [start, end], both ends included, contains
\* it is returned, so a minute on a boundary shared by two periods goes to the
\* earlier-listed one.
C8_IndexOfFirstPeriodAtMinute ==
    pc = "index" => IndexIsFirstSpanning(MinuteOfDay(arg.timestamp))

\* 08:00:30 is still in the period that ends at 08:00
C8_Witness ==
    /\ pc = "index"
    /\ arg.time_period_values = <<Period(T(0, 0), T(8, 0)), Period(T(8, 0), T(16, 0)),
                                  Period(T(16, 0), T(24, 0))>>
    /\ arg.timestamp = At(0, 8, 0, 30)
    /\ ret.exc = "none" /\ ret.val = 0

\* C9: time_periods_cover_24_hours returns true iff the normalised durations
\* of the periods sum to exactly 86340 seconds; nothing but the sum is tested,
\* so overlapping periods whose durations sum to 86340 pass as well.
C9_CoverIsSumCheck ==
    (pc = "cover" /\ AllValid(arg.time_period_values)) =>
        /\ ret.exc = "none"
        /\ ret.val = (SumOfDurations(arg.time_period_values) = 86340)

\* two copies of 00:00-08:00 and 16:00-24:00 overlap, leave 08:00-16:00
\* uncovered, and pass
C9_Witness ==
    /\ pc = "cover"
    /\ arg.time_period_values = <<Period(T(0, 0), T(8, 0)), Period(T(0, 0), T(8, 0)),
                                  Period(T(16, 0), T(24, 0))>>
    /\ ret.exc = "none" /\ ret.val = TRUE

\* C10: a period text fails with ThresholdTimePeriodError exactly when it has
\* not one '-', a side is no clock time, or the normalised end is before the
\* start; a period that parses has start <= end; the coverage check raises
\* the error, and does not return false, when a period of the list is invalid.
C10_InvalidPeriodRaises ==
    /\ pc = "period" =>
         /\ ret.exc = (IF ValidPeriod(arg.time_period) THEN "none"
                       ELSE "ThresholdTimePeriodError")
         /\ ret.exc = "none" => ret.val.start_time <= ret.val.end_time
    /\ pc = "cover" =>
         ret.exc = (IF AllValid(arg.time_period_values) THEN "none"
                    ELSE "ThresholdTimePeriodError")

\* a valid period followed by one that ends before it starts
C10_Witness ==
    /\ pc = "cover"
    /\ arg.time_period_values = <<Period(T(0, 0), T(8, 0)), Period(T(16, 0), T(8, 0))>>
    /\ ret.exc = "ThresholdTimePeriodError"

-----------------------------------------------------------------------------
(* Properties of the resolution of thresholds *)

\* the periods given to get_thresholds_for_time, as a list
GivenPeriods == Split(arg.time_periods.s, ",")

\* the threshold a list of n thresholds holds at 0-based index i, or None for
\* a list that was not given
ExpectedForNow(given, n, from, i) ==
    IF given = PyNone THEN PyNone ELSE Str(Dec(10 * (from + i + 1)))

\* C7: with warning, critical and periods lists of equal length (a list may be
\* absent) whose periods cover the day, get_thresholds_for_time returns
\* (warning[i], critical[i]) for the index i of the first period containing
\* the time of day of the timestamp, and None for an absent list.
C7_ThresholdsOfCurrentPeriod ==
    ( /\ pc = "resolve"
      /\ arg.time_periods # PyNone
      /\ arg.warning # PyNone \/ arg.critical # PyNone
      /\ arg.warning \in {PyNone, Str(ThresholdList(Len(GivenPeriods), 0))}
      /\ arg.critical \in {PyNone, Str(ThresholdList(Len(GivenPeriods), 4))}
      /\ AllValid(GivenPeriods)
      /\ SumOfDurations(GivenPeriods) = 86340 ) =>
        \A i \in 1..Len(GivenPeriods) :
            FirstSpanning(GivenPeriods, i, MinuteOfDay(arg.timestamp)) =>
                /\ ret.exc = "none"
                /\ ret.val.warning = ExpectedForNow(arg.warning, Len(GivenPeriods), 0, i - 1)
                /\ ret.val.critical = ExpectedForNow(arg.critical, Len(GivenPeriods), 4, i - 1)

\* '10,20,30' / '50,60,70' over three periods gives ('20', '60') at 11:32
C7_Witness ==
    /\ pc = "resolve"
    /\ arg.warning = Str(ThresholdList(3, 0))
    /\ arg.critical = Str(ThresholdList(3, 4))
    /\ arg.time_periods = Str(Join(<<Period(T(0, 0), T(8, 0)), Period(T(8, 0), T(16, 0)),
                                     Period(T(16, 0), T(24, 0))>>, ","))
    /\ arg.timestamp = At(14610, 11, 32, 0)
    /\ ret.exc = "none"
    /\ ret.val.warning = Str(<<"2", "0">>)
    /\ ret.val.critical = Str(<<"6", "0">>)

\* the number of elements of a comma-separated argument, 0 for an absent one
ListLength(x) ==
    IF x = PyNone THEN 0 ELSE Cardinality({i \in 1..Len(x.s) : x.s[i] = ","}) + 1

CommaFree(x) == ListLength(x) <= 1

\* the warning and critical lists differ in length from each other
ThresholdListsDiffer ==
    /\ arg.warning # PyNone /\ arg.critical # PyNone
    /\ ListLength(arg.warning) # ListLength(arg.critical)

\* a threshold list that was given differs in length from the periods list
ThresholdListDiffersFromPeriods ==
    /\ arg.time_periods # PyNone
    /\ \/ arg.warning # PyNone /\ ListLength(arg.warning) # ListLength(arg.time_periods)
       \/ arg.critical # PyNone /\ ListLength(arg.critical) # ListLength(arg.time_periods)

\* the lists that were given have as many elements as there are periods
LengthsAgree ==
    /\ arg.time_periods # PyNone
    /\ arg.warning # PyNone \/ arg.critical # PyNone
    /\ arg.warning # PyNone => ListLength(arg.warning) = ListLength(arg.time_periods)
    /\ arg.critical # PyNone => ListLength(arg.critical) = ListLength(arg.time_periods)

\* C11 as stated: get_thresholds_for_time fails with ThresholdTimePeriodError
\* whenever the warning and critical lists differ in length from each other
\* or a given threshold list differs in length from the periods list.
C11_AsStated ==
    (pc = "resolve" /\ (ThresholdListsDiffer \/ ThresholdListDiffersFromPeriods))
        => ret.exc = "ThresholdTimePeriodError"

\* with a periods argument the sentence holds: lists of different lengths are
\* refused with ThresholdTimePeriodError before the periods are looked at
C11_RefusedWhenPeriodsGiven ==
    ( /\ pc = "resolve" /\ arg.time_periods # PyNone
      /\ ThresholdListsDiffer \/ ThresholdListDiffersFromPeriods )
        => ret.exc = "ThresholdTimePeriodError"

C13_BothAbsentRefused ==
    (pc = "resolve" /\ arg.warning = PyNone /\ arg.critical = PyNone)
        => ret.exc = "InvalidParameterError"

\* both absent, with periods that cover the day
C13_Witness ==
    /\ pc = "resolve"
    /\ arg.warning = PyNone /\ arg.critical = PyNone
    /\ arg.time_periods = Str(Period(T(0, 0), T(24, 0)))
    /\ ret.exc = "InvalidParameterError"

\* neither threshold has a comma, no periods are given, one threshold is given
SingleGlobalThreshold ==
    /\ pc = "resolve"
    /\ arg.time_periods = PyNone
    /\ CommaFree(arg.warning) /\ CommaFree(arg.critical)
    /\ arg.warning # PyNone \/ arg.critical # PyNone

\* C14 as stated: with no comma in either threshold and no periods, the pair
\* (warning, critical) is returned unchanged: a string as the same string, an
\* absent threshold as None.
C14_AsStated ==
    SingleGlobalThreshold =>
        /\ ret.exc = "none"
        /\ ret.val.warning = arg.warning
        /\ ret.val.critical = arg.critical

\* what is returned: a string as the same string, and the empty tuple for an
\* absent threshold
C14_AbsentReturnedAsTuple ==
    SingleGlobalThreshold =>
        /\ ret.exc = "none"
        /\ ret.val.warning = (IF arg.warning = PyNone THEN PyEmptyTuple ELSE arg.warning)
        /\ ret.val.critical = (IF arg.critical = PyNone THEN PyEmptyTuple ELSE arg.critical)

\* n > 1 valid periods whose durations sum to a day, n values for one
\* threshold and a single value for the other
ListBesideSingle ==
    /\ pc = "resolve" /\ arg.time_periods # PyNone
    /\ arg.warning # PyNone /\ arg.critical # PyNone
    /\ ListLength(arg.time_periods) > 1
    /\ AllValid(GivenPeriods) /\ SumOfDurations(GivenPeriods) = 86340
    /\ \/ /\ ListLength(arg.warning) = ListLength(arg.time_periods)
          /\ ListLength(arg.critical) = 1
       \/ /\ ListLength(arg.critical) = ListLength(arg.time_periods)
          /\ ListLength(arg.warning) = 1

\* C15 as stated: a list of n values for one threshold and a single value for
\* the other resolve successfully over n > 1 periods covering the day, the
\* single value applying in every period.
C15_AsStated ==
    ListBesideSingle =>
        /\ ret.exc = "none"
        /\ ListLength(arg.warning) = 1 => ret.val.warning = arg.warning
        /\ ListLength(arg.critical) = 1 => ret.val.critical = arg.critical

\* C15 amended: one threshold may vary over time alone only when the other is
\* absent, which then resolves to None; a single value beside a list of n > 1
\* values is refused with ThresholdTimePeriodError.
C15_SingleBesideListRefused ==
    /\ ListBesideSingle => ret.exc = "ThresholdTimePeriodError"
    /\ ( /\ pc = "resolve" /\ LengthsAgree
         /\ arg.warning = PyNone \/ arg.critical = PyNone
         /\ AllValid(GivenPeriods) /\ SumOfDurations(GivenPeriods) = 86340
         /\ \E i \in 1..Len(GivenPeriods) :
               Spans(GivenPeriods[i], MinuteOfDay(arg.timestamp)) ) =>
           /\ ret.exc = "none"
           /\ arg.warning = PyNone => ret.val.warning = PyNone
           /\ arg.critical = PyNone => ret.val.critical = PyNone

\* '10,20,30' beside the single '50' over three periods is refused
C15_Witness ==
    /\ pc = "resolve"
    /\ arg.warning = Str(ThresholdList(3, 0))
    /\ arg.critical = Str(ThresholdList(1, 4))
    /\ arg.time_periods = Str(Join(<<Period(T(0, 0), T(8, 0)), Period(T(8, 0), T(16, 0)),
                                     Period(T(16, 0), T(24, 0))>>, ","))
    /\ ret.exc = "ThresholdTimePeriodError"

-----------------------------------------------------------------------------
(* Properties of the status decision *)

CriticalConfigured == thresholds.exists /\ thresholds.obj.has_critical_values
WarningConfigured == thresholds.exists /\ thresholds.obj.has_warning_values

\* C1: the status is CRITICAL whenever a critical range is configured and
\* matches the value, also when the warning range matches too; otherwise
\* WARNING when a warning range is configured and matches; otherwise OK; with
\* neither threshold configured it is OK for every value.
C1_CriticalBeforeWarning ==
    /\ pc = "checked" =>
         status = IF CriticalConfigured
                     /\ Alerts(thresholds.obj.critical_values, NumericOf(arg.value))
                  THEN STATUS_CRITICAL
                  ELSE IF WarningConfigured
                          /\ Alerts(thresholds.obj.warning_values, NumericOf(arg.value))
                  THEN STATUS_WARNING
                  ELSE STATUS_OK
    /\ (pc = "failed" /\ "value" \in DOMAIN arg) => (CriticalConfigured \/ WarningConfigured)

\* both ranges match the value and the status is CRITICAL
C1_Witness ==
    /\ pc = "checked"
    /\ CriticalConfigured /\ WarningConfigured
    /\ Alerts(thresholds.obj.critical_values, NumericOf(arg.value))
    /\ Alerts(thresholds.obj.warning_values, NumericOf(arg.value))
    /\ status = STATUS_CRITICAL

-----------------------------------------------------------------------------
(* Properties of the rate computation *)

Abs(x) == IF x >= 0 THEN x ELSE 0 - x

\* the number a stored or fetched value stands for, in units of 1 / Scale
Numeric(v) ==
    IF v.t = "str" THEN (IF IsDigits(v.s) THEN Scale * DecimalValue(v.s) ELSE 0) ELSE v.c

\* the whole number of seconds nearest to the time since the previous entry
Elapsed(slot) ==
    CHOOSE e \in 0..(slot.now - slot.previous.time) :
        2 * Abs(TicksPerSecond * e - (slot.now - slot.previous.time)) <= TicksPerSecond

\* r is the float nearest to delta / e with delta_precision digits
IsRateOf(r, delta, e) == r.t = "float" /\ 2 * Abs(r.c * e - delta) <= e

\* _get_delta has computed a rate in slot p from a previous entry
Rated(p) ==
    /\ inv[p].pc = "persisting"
    /\ inv[p].previous.present
    /\ Elapsed(inv[p]) > 0

\* the entry the rate is computed from is the one the delta file holds
FromLatestObservation(p) ==
    inv[p].previous = IF file.state = "written" THEN file.data[inv[p].key] ELSE NoEntry

IsNumericValue(v) == v.t \in {"int", "float"} \/ (v.t = "str" /\ IsDigits(v.s))

\* _get_delta has been called in slot p for a key that has no previous entry,
\* or one whose rounded age is 0
CalledWithoutBaseline(p) ==
    /\ inv[p].pc \in {"persisting", "crashed"}
    /\ inv[p].key # "none"
    /\ (~inv[p].previous.present \/ Elapsed(inv[p]) = 0)

-----------------------------------------------------------------------------
(* Properties of the delta store *)

\* a call of _get_delta in slot p has ended, by a return or by an exception
CallEnded(p) ==
    /\ inv[p].key # "none"
    /\ inv[p].pc \in {"rating", "ready", "done", "crashed", "failed"}

\* the delta file holds the observation of the last call of slot p
LatestObservationPersisted(p) ==
    /\ file.state = "written"
    /\ file.data[inv[p].key] = Entry(inv[p].now, inv[p].current)

\* C18 as stated: every call of the rate computation, for every current value
\* and whether or not a rate could be computed, overwrites the entry of the key
\* with {current time, current value} and persists the store before it ends,
\* so that in sequential invocations on a file that can be written the
\* persisted entry of a key holds its latest observation.
C18_AsStated ==
    \A p \in Procs :
        /\ (inv[p].pc \in {"persisting", "dumping"}) =>
              inv[p].data[inv[p].key] = Entry(inv[p].now, inv[p].current)
        /\ (CallEnded(p) /\ file.writable) =>
              /\ inv[p].error = "none"
              /\ LatestObservationPersisted(p)

\* what holds of C18: for every numeric current value, with or without a rate,
\* the call overwrites the entry and persists it before it returns
C18_NumericObservationPersisted ==
    \A p \in Procs :
        /\ (inv[p].pc \in {"persisting", "dumping"}) =>
              inv[p].data[inv[p].key] = Entry(inv[p].now, inv[p].current)
        /\ (CallEnded(p) /\ file.writable /\ IsNumericValue(inv[p].current)) =>
              /\ inv[p].error = "none"
              /\ LatestObservationPersisted(p)

\* the first observation of 'version' with the delta option: ValueError, and
\* nothing stored
C18_VersionNotStored ==
    /\ inv[1].pc = "crashed"
    /\ inv[1].key = "version"
    /\ inv[1].error = "ValueError"
    /\ ~inv[1].previous.present
    /\ file.writable
    /\ ~file.data["version"].present

\* the other invocation slot
Other(p) == IF p = 1 THEN 2 ELSE 1

\* both invocations have computed a rate, of different statistics, and each
\* loaded the delta file before the other persisted: its collection has no
\* entry of the other's key
BothRacedToTheEnd ==
    /\ \A p \in Procs : inv[p].pc = "done" /\ inv[p].delta /\ inv[p].persists = 1
    /\ inv[1].statistic # inv[2].statistic
    /\ \A p \in Procs : ~inv[p].data[inv[Other(p)].statistic].present

\* the file holds what slot p wrote and nothing of the other slot's entry
LastWriterWins(p) ==
    /\ file.state = "written"
    /\ file.data = inv[p].data
    /\ file.data[inv[p].statistic] = Entry(inv[p].now, inv[p].current)
    /\ ~file.data[inv[Other(p)].statistic].present

\* C19: when two concurrent invocations on one delta file each load it before
\* the other persists, the file ends with the contents written by the last
\* writer only, without the entry the first writer stored: an update is lost.
C19_LastWriterWins ==
    BothRacedToTheEnd => \E p \in Procs : LastWriterWins(p)

\* get_hits and cmd_get checked at the same time: the file ends without the
\* entry of get_hits, which the first invocation had persisted
C19_Witness ==
    /\ BothRacedToTheEnd
    /\ inv[1].statistic = "get_hits"
    /\ inv[2].statistic = "cmd_get"
    /\ LastWriterWins(2)
    /\ inv[1].data["get_hits"].present

\* no key occurs twice in the sequence of keys set
SetOnce(keys) == \A i, j \in 1..Len(keys) : keys[i] = keys[j] => i = j

\* the number of rate computations of a check: two for the baselines of the
\* percentage, one for the delta option
RateComputations(statistic, delta) ==
    (IF statistic = CACHE_HITS_PERCENTAGE THEN 2 ELSE 0) + (IF delta THEN 1 ELSE 0)

Held(k) ==
    IF file.state = "truncated" THEN inv[1].data[k].present
    ELSE file.state = "written" /\ file.data[k].present

\* a step in which persist() of invocation 1 completes
Persisted == inv[1].pc = "dumping" /\ inv'[1].pc # "dumping"

\* C21: in invocations that run one after the other, an entry is created or
\* overwritten by the observation of its key and no entry is ever deleted: a
\* key the persisted file holds is held after every later persist, whatever
\* key is observed.
C21_EntriesNeverDeleted ==
    [][/\ \A k \in StoreKeys : Held(k) => Held(k)'
       /\ Persisted =>
             /\ file'.state = "written"
             /\ file'.data[inv[1].key] = Entry(inv[1].now, inv[1].current)
             /\ \A k \in StoreKeys \ {inv[1].key} :
                   file'.data[k].present => file'.data[k] = inv[1].data[k]]_vars

\* a later check of the percentage has stored its baselines, and the entry of
\* get_hits left at time 0 is still in the file
C21_Witness ==
    /\ inv[1].pc = "done"
    /\ inv[1].statistic = CACHE_HITS_PERCENTAGE
    /\ file.state = "written"
    /\ file.data[GetHitsSubKey].time > 0
    /\ file.data["get_hits"] = Entry(0, StrOf(Dec(100)))


\* the entry of key k a later invocation would load; while invocation 1 is
\* rewriting the file, the entry it is about to write
OnDisk(k) ==
    IF file.state = "truncated" THEN inv[1].data[k]
    ELSE IF file.state = "written" THEN file.data[k]
    ELSE NoEntry

\* the keys a check of the statistic may write, with and without the delta
\* option
WrittenBy(statistic, delta) ==
    IF statistic = CACHE_HITS_PERCENTAGE
    THEN {GetHitsSubKey, CmdGetSubKey} \cup (IF delta THEN {CACHE_HITS_PERCENTAGE} ELSE {})
    ELSE IF delta THEN {statistic} ELSE {}

\* C29: in invocations that run one after the other, a rate computation
\* changes the entry of its own key and no other: every other entry keeps its
\* value and timestamp; a check of cache_hits_percentage writes its sub-keys
\* and leaves the entries of 'get_hits' and 'cmd_get' as they were; a check of
\* an ordinary statistic without the delta option does not write the file.
C29_OnlyTheKeyOfTheRate ==
    [][/\ \A k \in StoreKeys :
             OnDisk(k)' # OnDisk(k) =>
                 /\ inv[1].pc = "persisting"
                 /\ k = inv[1].key
                 /\ k \in WrittenBy(inv[1].statistic, inv[1].delta)
                 /\ OnDisk(k)' = Entry(inv[1].now, inv[1].current)
       /\ inv[1].statistic = CACHE_HITS_PERCENTAGE =>
             /\ OnDisk("get_hits")' = OnDisk("get_hits")
             /\ OnDisk("cmd_get")' = OnDisk("cmd_get")
       /\ (inv[1].statistic # CACHE_HITS_PERCENTAGE /\ ~inv[1].delta) => file' = file]_vars

\* a check of the percentage with the delta option has written its three
\* keys, and the baselines of get_hits and cmd_get left at time 0 are as they
\* were
C29_Witness ==
    /\ inv[1].pc = "done"
    /\ inv[1].statistic = CACHE_HITS_PERCENTAGE /\ inv[1].delta
    /\ file.state = "written"
    /\ file.data[CmdGetSubKey].time > 0
    /\ file.data[CACHE_HITS_PERCENTAGE].time > 0
    /\ file.data["get_hits"] = Entry(0, StrOf(Dec(100)))
    /\ file.data["cmd_get"] = Entry(0, StrOf(Dec(200)))


\* C30 as stated: a load that runs while another invocation persists sees the
\* complete previous or the complete new contents of the file, never the file
\* truncated and not yet written, so load never fails.
C30_AsStated ==
    \A p \in Procs : inv[p].error # "EOFError"

\* what holds of C30: a load fails only on the file another invocation has
\* truncated, before anything is fetched or stored, and ends the invocation
\* with exit status 1; a load that succeeds never holds more than the file of
\* that moment
C30_LoadFailsOnlyOnTruncatedFile ==
    [][\A p \in Procs :
          inv'[p].loads # inv[p].loads =>
              IF file.state = "truncated"
              THEN /\ inv'[p].pc = "crashed" /\ inv'[p].error = "EOFError"
                   /\ inv'[p].exit = UncaughtExit
                   /\ inv[Other(p)].pc = "dumping"
              ELSE /\ inv'[p].pc = "constructed"
                   /\ inv'[p].data = (IF file.state = "written" THEN file.data
                                      ELSE EmptyStore)]_vars

\* invocations that run one after the other never load a truncated file
C30_NoFailureInTurn ==
    inv[1].error # "EOFError"

\* invocation 2 starts while invocation 1 is between open and dump: EOFError
C30_LoadOfTruncatedFile ==
    /\ inv[1].pc = "dumping"
    /\ file.state = "truncated"
    /\ inv[2].pc = "crashed"
    /\ inv[2].error = "EOFError"
    /\ inv[2].exit = UncaughtExit

-----------------------------------------------------------------------------
(* Properties of the failures of an invocation *)

\* C22 as stated: every failure of an invocation - here a value that is no
\* number given to the rate computation, or a delta file that cannot be
\* written - ends it with the exit status UNKNOWN (3), never with OK, WARNING
\* or CRITICAL.
C22_AsStated ==
    \A p \in Procs :
        inv[p].error # "none" => inv[p].exit = STATUS_UNKNOWN

\* what holds of C22 for the delta store: when persist fails the rate is
\* already computed, nothing is retried and the invocation ends with UNKNOWN
C22_PersistFailureIsUnknown ==
    \A p \in Procs :
        inv[p].pc = "failed" =>
            /\ inv[p].error = "NagiosPluginError"
            /\ inv[p].exit = STATUS_UNKNOWN
            /\ inv[p].status = STATUS_UNKNOWN
            /\ inv[p].delta_value # NoneValue
            /\ inv[p].persists < Len(inv[p].sets)
            /\ ~file.writable

\* what holds of C22 for the thresholds: a failure of set_thresholds or of
\* _calculate_status by one of the plugin's errors ends with UNKNOWN
C22_PluginErrorIsUnknown ==
    (pc = "failed" /\ ret.exc \in PluginErrors) =>
        (exit_status = STATUS_UNKNOWN /\ status = STATUS_UNKNOWN)

\* the rate of 'version' is asked for: ValueError, and the process ends with
\* status 1
C22_VersionEndsWithOne ==
    /\ inv[1].pc = "crashed"
    /\ inv[1].error = "ValueError"
    /\ inv[1].exit = STATUS_WARNING

\* a threshold list without periods: AttributeError, and the process ends with
\* status 1
C22_ListWithoutPeriodsEndsWithOne ==
    /\ pc = "failed"
    /\ ret.exc = "AttributeError"
    /\ exit_status = STATUS_WARNING

\* a fetched value that writes a number: a number, or digits with at most a sign
IsNumber(value) ==
    \/ value.t = "num"
    \/ /\ value.t = "str"
       /\ \/ IsDigits(value.s)
          \/ (Len(value.s) > 1 /\ value.s[1] \in {"-", "+"} /\ IsDigits(Tail(value.s)))

\* check() has been called with a fetched value that is no number
CheckedNonNumeric ==
    /\ pc \in {"checked", "failed"}
    /\ "value" \in DOMAIN arg
    /\ ~IsNumber(arg.value)

\* C23 as stated: value_matches_range fails for every non-numeric value, so a
\* check whose fetched value is non-numeric never ends with status OK, WARNING
\* or CRITICAL.
C23_AsStated ==
    CheckedNonNumeric =>
        /\ pc = "failed"
        /\ ret.exc = "InvalidParameterError"
        /\ exit_status = STATUS_UNKNOWN

\* C23 amended: with a warning or critical range configured, the check of a
\* non-numeric value fails with the invalid-value error (InvalidParameterError)
\* and ends with UNKNOWN; with no threshold configured the matcher is never
\* called and the check ends with OK.
C23_NonNumericFailsWhereARangeIsSet ==
    CheckedNonNumeric =>
        IF CriticalConfigured \/ WarningConfigured
        THEN /\ pc = "failed"
             /\ ret.exc = "InvalidParameterError"
             /\ status = STATUS_UNKNOWN
             /\ exit_status = STATUS_UNKNOWN
        ELSE /\ pc = "checked"
             /\ status = STATUS_OK
             /\ exit_status = STATUS_OK

\* what holds of C23 for the matcher alone: for every range the constructor
\* accepts, value_is_warning of a non-numeric value raises and returns nothing
C23_MatcherRaisesForNonNumeric ==
    pc = "match" =>
        \A v \in NonNumericValues :
            value_is_warning(thresholds.obj, v).exc = "InvalidParameterError"

\* 'a' is checked against a warning range alone: InvalidParameterError, UNKNOWN
C23_Witness ==
    /\ CheckedNonNumeric
    /\ WarningConfigured /\ ~CriticalConfigured
    /\ pc = "failed"
    /\ ret.exc = "InvalidParameterError"
    /\ exit_status = STATUS_UNKNOWN


-----------------------------------------------------------------------------
(* Properties of the two flags of the matcher *)

\* the range of the threshold that was matched
MatchedRange == thresholds.obj.warning_values

\* the outcome of threshold '@R' on the value, R being the threshold matched
WithAt == value_is_warning(Thresholds(Str(<<"@">> \o arg.string), PyNone).val, arg.value)

\* C28: for every range, finite or infinite, and every numeric value,
\* value_matches_range with the flag true returns the negation of what it
\* returns with the flag false: of the thresholds 'R' and '@R' exactly one
\* alerts on the value.
C28_FlagsAreNegations ==
    (pc = "match" /\ IsNumber(arg.value)) =>
        /\ ret.exc = "none"
        /\ value_matches_range(MatchedRange.start, MatchedRange.end,
                               ~MatchedRange.flag, arg.value) = Ok(~ret.val)
        /\ ~StartsWith(arg.string, "@") => WithAt = Ok(~ret.val)

\* '1:' does not alert on 1, its lower bound, and '@1:' does
C28_Witness ==
    /\ pc = "match"
    /\ arg.string = <<"1", ":">>
    /\ arg.value = NumValue(1)
    /\ ret = Ok(FALSE)
    /\ WithAt = Ok(TRUE)

-----------------------------------------------------------------------------
(* Properties of the failures of the resolution of thresholds *)

\* the lists agree in length and the periods pass the coverage check of
\* get_thresholds_for_time: all are well formed and their durations sum to a
\* day less a minute
PassedCoverage ==
    /\ pc = "resolve" /\ LengthsAgree
    /\ AllValid(GivenPeriods)
    /\ SumOfDurations(GivenPeriods) = 86340

\* no period of the list spans the time of day of the timestamp
NoneSpans ==
    \A i \in 1..Len(GivenPeriods) : ~Spans(GivenPeriods[i], MinuteOfDay(arg.timestamp))

\* C24 as stated: once the periods have passed the coverage check,
\* get_time_period_index finds a containing period for every timestamp, so
\* get_thresholds_for_time does not fail with 'No time period contains the
\* given time'.
C24_AsStated ==
    PassedCoverage => ret.exc = "none"

\* what holds of C24: after the coverage check the call fails exactly when no
\* period spans the time of day, and then with ThresholdTimePeriodError
C24_FailsWhereNoPeriodSpans ==
    PassedCoverage =>
        /\ ret.exc = (IF NoneSpans THEN "ThresholdTimePeriodError" ELSE "none")
        /\ NoneSpans => ret.val = NoValue

\* 00:00-08:00 given twice and 16:00-24:00 sum to a day; 11:32 is in neither
C24_GapAfterCoverage ==
    /\ PassedCoverage
    /\ arg.time_periods = Str(Join(<<Period(T(0, 0), T(8, 0)), Period(T(0, 0), T(8, 0)),
                                     Period(T(16, 0), T(24, 0))>>, ","))
    /\ arg.timestamp = At(14610, 11, 32, 0)
    /\ ret.exc = "ThresholdTimePeriodError"


\* a threshold list with a comma is given and no periods are
ListWithoutPeriods ==
    /\ arg.time_periods = PyNone
    /\ arg.warning # PyNone \/ arg.critical # PyNone
    /\ ~CommaFree(arg.warning) \/ ~CommaFree(arg.critical)

\* C26 as stated: for every combination of warning, critical and periods,
\* a comma-separated list without periods included, get_thresholds_for_time
\* returns a pair or raises InvalidParameterError or ThresholdTimePeriodError.
C26_AsStated ==
    pc = "resolve" =>
        ret.exc \in {"none", "InvalidParameterError", "ThresholdTimePeriodError"}

\* what holds of C26: the one other failure is the AttributeError of a
\* comma-separated list given without periods, and that input always has it
C26_AttributeErrorWithoutPeriods ==
    pc = "resolve" =>
        IF ListWithoutPeriods THEN ret.exc = "AttributeError"
        ELSE ret.exc \in {"none", "InvalidParameterError", "ThresholdTimePeriodError"}

\* warning None, critical '50,60', no periods: None.split(','), AttributeError
C26_CriticalListAlone ==
    /\ pc = "resolve"
    /\ arg.warning = PyNone
    /\ arg.critical = Str(ThresholdList(2, 4))
    /\ arg.time_periods = PyNone
    /\ ret.exc = "AttributeError"


\* the plugin has been constructed, or has failed to be, from lists of
\* thresholds with as many entries as there are periods, the periods covering
\* the day
ConstructedFromLists ==
    /\ pc \in {"constructed", "failed"}
    /\ "now" \in DOMAIN arg
    /\ LengthsAgree
    /\ ListLength(arg.time_periods) > 1
    /\ AllValid(GivenPeriods)
    /\ SumOfDurations(GivenPeriods) = 86340

\* entry i of a list is a threshold string that validate refuses
MalformedEntry(x, i) ==
    /\ x # PyNone
    /\ Split(x.s, ",")[i] # <<>>
    /\ validate(Split(x.s, ",")[i]).exc # "none"

\* some entry of the warning or of the critical list is malformed
SomeEntryMalformed ==
    \E i \in 1..Len(GivenPeriods) :
        MalformedEntry(arg.warning, i) \/ MalformedEntry(arg.critical, i)

\* C27 as stated: if any entry of the warning or critical list is not a valid
\* threshold string, construction fails with ThresholdValidatorError at every
\* timestamp, not only while the period of the malformed entry is current.
C27_AsStated ==
    (ConstructedFromLists /\ SomeEntryMalformed) =>
        /\ pc = "failed"
        /\ ret.exc = "ThresholdValidatorError"

\* what holds of C27: construction fails with ThresholdValidatorError exactly
\* while the period of a malformed entry is the current one
C27_RefusedWhileMalformedEntryIsCurrent ==
    ConstructedFromLists =>
        \A i \in 1..Len(GivenPeriods) :
            FirstSpanning(GivenPeriods, i, MinuteOfDay(arg.now)) =>
                IF MalformedEntry(arg.warning, i) \/ MalformedEntry(arg.critical, i)
                THEN pc = "failed" /\ ret.exc = "ThresholdValidatorError"
                ELSE pc = "constructed" /\ ret.exc = "none"

\* -w 1,a over 00:00-08:00,08:00-24:00 is accepted at 07:56
C27_AcceptedInTheMorning ==
    /\ ConstructedFromLists
    /\ arg.warning = Str(<<"1", ",", "a">>)
    /\ arg.now = At(14610, 7, 56, 0)
    /\ pc = "constructed"

\* -w 1,a over the same periods is refused at 18:32
C27_RefusedInTheEvening ==
    /\ ConstructedFromLists
    /\ arg.warning = Str(<<"1", ",", "a">>)
    /\ arg.critical = PyNone
    /\ arg.now = At(14610, 18, 32, 0)
    /\ pc = "failed"
    /\ ret.exc = "ThresholdValidatorError"

-----------------------------------------------------------------------------
(* Properties of the failures of the range grammar *)

\* parse has been called on a non-empty string that validate accepts
ParsedValidated ==
    /\ pc = "parse"
    /\ arg.string # <<>>
    /\ validate(arg.string).exc = "none"

\* C25 as stated: every non-empty string that validate accepts is handled by
\* parse without a failure other than ThresholdValidatorError, and so is the
\* construction of Thresholds from it.
C25_AsStated ==
    ParsedValidated =>
        /\ ret.exc \in {"none", "ThresholdValidatorError"}
        /\ Thresholds(Str(arg.string), PyNone).exc \in {"none", "ThresholdValidatorError"}

\* what holds of C25: parse and the constructor fail alike on a validated
\* string, with ThresholdValidatorError or with the ValueError of int()
C25_ValueErrorOrValidatorError ==
    ParsedValidated =>
        /\ ret.exc \in {"none", "ThresholdValidatorError", "ValueError"}
        /\ Thresholds(Str(arg.string), PyNone).exc = ret.exc

\* '~' is accepted by validate; parse calls int('~'), a ValueError
C25_TildeAlone ==
    /\ ParsedValidated
    /\ arg.string = <<"~">>
    /\ ret.exc = "ValueError"

\* '@' is accepted by validate; parse calls int(''), a ValueError
C25_AtAlone ==
    /\ ParsedValidated
    /\ arg.string = <<"@">>
    /\ Thresholds(Str(arg.string), PyNone).exc = "ValueError"

====
